---- MODULE Spec2Model ----
(***************************************************************************)
(* Region-aware transaction ledger service (ledger-app).                   *)
(*                                                                         *)
(* Several instances, each pinned to one region, share one SQL store, one  *)
(* object store and one queue.  The module models the ingest pipeline of   *)
(* POST /transactions, the queue consumer loop and the signal-driven       *)
(* shutdown of the process.  Every handler is cut at its external calls    *)
(* (SQL, object store, queue), which are the points where concurrent       *)
(* requests and the consumer loops interleave.                             *)
(***************************************************************************)
EXTENDS Integers, Sequences, FiniteSets, TLC

(***************************************************************************)
(* Bounds of the model.                                                    *)
(***************************************************************************)
\* number of HTTP request tasks (each serves one POST /transactions),
\* numbered in the order the servers accept them
MaxReq == 2
\* number of messages the queue holds when the consumer loops start
MaxMsg == 2
\* number of visibility timeouts that expire on the messages of the queue
MaxRedeliver == 1

(***************************************************************************)
(* Program constants.                                                      *)
(***************************************************************************)
\* processSQSMessages: sqsClient.ReceiveMessages(10, 0)
MaxNumberOfMessages == 10
StatusBadRequest == 400
StatusInternalServerError == 500
StatusCreated == 201
StatusOK == 200
StatusNotFound == 404
StatusServiceUnavailable == 503
\* log.Fatal and zap's Fatal end the process with os.Exit(1)
FatalCode == 1

\* the instances, named by their configured region (REGION)
Instances == {"us-east-1", "eu-central-1"}
Reqs == 1..MaxReq

None == [none |-> TRUE]

VARIABLES
    rows,       \* SQL store: the set of rows of table transactions
    objects,    \* object store: the set of objects [key, body] of the bucket
    queue,      \* queue: the set of messages [mid, body, rc, visible]
    nextId,     \* source of fresh transaction ids (uuid.New)
    nextMid,    \* source of fresh queue message ids
    reqs,       \* HTTP request tasks
    cons,       \* consumer loop of every instance
    proc,       \* process of every instance
    up,         \* which of the SQL store, object store and queue is reachable
    call,       \* the latest call a client of the store interface has made
    created,    \* which of the bucket and the queue exist
    ens         \* ensureBucket and ensureQueue of every instance

vars ==
    <<rows, objects, queue, nextId, nextMid, reqs, cons, proc, up, call,
      created, ens>>

(***************************************************************************)
(* Amounts.  An amount is the string of the request body, modelled as the  *)
(* sequence of its characters.                                             *)
(***************************************************************************)
Digits == {"0", "1", "2", "3", "4", "5", "6", "7", "8", "9"}

Amounts ==
    { <<>>, <<"1", ".", "5">>, <<"0">>, <<"-", "1">>, <<"a">>, <<"1", "a">> }

\* the digits and point of an amount, without its sign
Unsigned(s) ==
    IF Len(s) > 0 /\ s[1] \in {"-", "+"} THEN Tail(s) ELSE s

\* the syntax of a decimal literal: [sign] digits [. digits]
IsDecimal(s) ==
    LET u == Unsigned(s) IN
        /\ \E i \in 1..Len(u) : u[i] \in Digits
        /\ \A i \in 1..Len(u) : u[i] \in Digits \cup {"."}
        /\ Cardinality({i \in 1..Len(u) : u[i] = "."}) <= 1

\* -1, 0 or 1: the sign of the value of a decimal literal
DecimalSign(s) ==
    LET u == Unsigned(s) IN
        IF \A i \in 1..Len(u) : u[i] \in {"0", "."} THEN 0
        ELSE IF s[1] = "-" THEN -1 ELSE 1

\* models.ParseAmount followed by the positivity check of the ingest
\* pipeline: the amount parses as a decimal and its value is above zero
ParseAmountOk(s) == IsDecimal(s) /\ DecimalSign(s) = 1

(***************************************************************************)
(* Request bodies of POST /transactions.                                   *)
(***************************************************************************)
\* a body that json.Decoder cannot decode leaves the request struct unset
UndecodableBody ==
    [decodable |-> FALSE, from_account |-> "", to_account |-> "", amount |-> <<>>]

Bodies ==
    {UndecodableBody} \cup
    [decodable : {TRUE}, from_account : {"", "acc1"}, to_account : {"", "acc2"},
     amount : Amounts]

\* CreateTransaction, decode and validate: 0 when the request goes on
ValidateRequestNoFrom(b) ==
    IF ~b.decodable THEN StatusBadRequest
    ELSE IF b.to_account = "" \/ b.amount = <<>> THEN StatusBadRequest
    ELSE 0

ValidateRequest(b) ==
    IF ~b.decodable THEN StatusBadRequest
    ELSE IF b.from_account = "" \/ b.to_account = "" \/ b.amount = <<>>
         THEN StatusBadRequest
    ELSE 0

\* time.Now().UTC() at the construction of the k-th transaction, in
\* nanoseconds: the clock advances and reads below the microsecond
Now(k) == 1000 * k + 100

\* a transaction that carries one region whatever the instance
NewTransactionFixedRegion(id, region, b) ==
    [id |-> id, region |-> "us-east-1", amount |-> b.amount,
     from_account |-> b.from_account, to_account |-> b.to_account,
     status |-> "pending", timestamp |-> Now(id)]

\* CreateTransaction, construct the transaction
NewTransaction(id, region, b) ==
    [id |-> id, region |-> region, amount |-> b.amount,
     from_account |-> b.from_account, to_account |-> b.to_account,
     status |-> "pending", timestamp |-> Now(id)]

(***************************************************************************)
(* The ingest pipeline after validation: the external calls in the order   *)
(* the handler makes them, and the calls whose failure ends the request.   *)
(***************************************************************************)
PipelineAuditFirst == <<"audit", "insert", "publish">>

\* the publish is made a second time
PipelinePublishTwice == <<"insert", "audit", "publish", "publish">>

Pipeline == <<"insert", "audit", "publish">>

AbortsOnFailureNever(step) == FALSE

AbortsOnFailureAudit(step) == step \in {"insert", "audit"}

AbortsOnFailure(step) == step = "insert"

\* a key without the id of the transaction
AuditKeyNoId(region, id) == <<"transactions", region>>

\* key of the audit object: transactions/<region>/<id>.json
AuditKey(region, id) == <<"transactions", region, id>>

\* models.AuditLog of the handler
AuditLog(tx, region) ==
    [transaction_id |-> tx.id, region |-> region, action |-> "transaction_created"]

\* sqs.Message of the handler
SqsMessage(tx, region) ==
    [transaction_id |-> tx.id, region |-> region, action |-> "transaction_created"]

(***************************************************************************)
(* The stores, by their wire contracts.                                    *)
(***************************************************************************)
\* INSERT INTO transactions: a DECIMAL(19,2) column refuses a non-decimal
SqlAccepts(tx) == IsDecimal(tx.amount)

\* the position of the decimal point of an amount, 0 when it has none
PointAt(s) ==
    IF \E i \in 1..Len(s) : s[i] = "." THEN CHOOSE i \in 1..Len(s) : s[i] = "."
    ELSE 0

\* a DECIMAL(19,2) column holds an amount with two digits after the point
\* (the amounts of the model have at most two)
Decimal2(s) ==
    LET p == PointAt(s)
        whole == IF p = 0 THEN s ELSE SubSeq(s, 1, p - 1)
        frac == IF p = 0 THEN <<>> ELSE SubSeq(s, p + 1, Len(s))
    IN whole \o <<".">> \o SubSeq(frac \o <<"0", "0">>, 1, 2)

\* a TIMESTAMP column holds a time to the microsecond
Microseconds(ns) == (ns \div 1000) * 1000

\* the row that INSERT INTO transactions stores for tx
SqlStored(tx) ==
    [tx EXCEPT !.amount = Decimal2(tx.amount),
               !.timestamp = Microseconds(tx.timestamp)]

\* DB.CreateTransaction, the Scan of RETURNING: the transaction of the
\* handler after the insert of row
ScanReturningNothing(tx, row) == tx

ScanReturning(tx, row) == row

\* DB.GetTransaction on the rows rs: the row, "notfound" when no row
\* matches, "storage" when the query fails
DbGetTransaction(rs, id, ok) ==
    IF ~ok THEN [err |-> "storage", tx |-> None]
    ELSE IF \E t \in rs : t.id = id
    THEN [err |-> "", tx |-> CHOOSE t \in rs : t.id = id]
    ELSE [err |-> "notfound", tx |-> None]

\* DB.UpdateTransactionStatus on the rows rs: UPDATE ... SET status WHERE
\* id; "notfound" when no row is affected, "storage" when the statement
\* fails
DbUpdateTransactionStatusAll(rs, id, status, ok) ==
    IF ~ok THEN [rows |-> rs, err |-> "storage"]
    ELSE IF ~\E t \in rs : t.id = id THEN [rows |-> rs, err |-> "notfound"]
    ELSE [rows |-> {[t EXCEPT !.status = status] : t \in rs}, err |-> ""]

DbUpdateTransactionStatus(rs, id, status, ok) ==
    IF ~ok THEN [rows |-> rs, err |-> "storage"]
    ELSE IF ~\E t \in rs : t.id = id THEN [rows |-> rs, err |-> "notfound"]
    ELSE [rows |-> {IF t.id = id THEN [t EXCEPT !.status = status] ELSE t :
                      t \in rs},
          err |-> ""]

\* the orders in which SELECT ... ORDER BY timestamp DESC can return the
\* rows rs: every order with the timestamps descending; the statement has
\* no second sort key, so rows of one timestamp come in any order
RECURSIVE Orders(_)
Orders(rs) ==
    IF rs = {} THEN {<<>>}
    ELSE LET latest == {t \in rs : \A t2 \in rs : t2.timestamp <= t.timestamp}
         IN UNION {{<<t>> \o s : s \in Orders(rs \ {t})} : t \in latest}

\* LIMIT limit OFFSET offset of the rows in the order given
LimitOffset(order, limit, offset) ==
    SubSeq(order, offset + 1,
           IF offset + limit < Len(order) THEN offset + limit ELSE Len(order))

\* DB.ListTransactions on the rows rs, returned in the order given:
\* "storage" when the query fails
DbListTransactions(order, limit, offset, ok) ==
    IF ~ok THEN [err |-> "storage", txs |-> <<>>]
    ELSE [err |-> "", txs |-> LimitOffset(order, limit, offset)]

\* PutObject replaces the object of the same key
PutObject(objs, key, body) ==
    {o \in objs : o.key # key} \cup {[key |-> key, body |-> body]}

\* json.Marshal of a message, and a body that is not JSON
Marshal(msg) == [valid |-> TRUE, msg |-> msg]
InvalidJson == [valid |-> FALSE, msg |-> None]

\* SendMessage: a new visible message
Enqueue(q, mid, body) ==
    q \cup {[mid |-> mid, body |-> body, rc |-> 0, visible |-> TRUE]}

(***************************************************************************)
(* HTTP request tasks.                                                     *)
(***************************************************************************)
IdleReq ==
    [pc |-> "idle", op |-> "", inst |-> "", body |-> UndecodableBody,
     path |-> 0, tx |-> None, step |-> 0, status |-> 0, resp |-> None,
     log |-> <<>>]

\* the calls a request has made, and the ones that succeeded
Attempted(r, step) == \E k \in 1..Len(reqs[r].log) : reqs[r].log[k].step = step
Succeeded(r, step) ==
    \E k \in 1..Len(reqs[r].log) :
        reqs[r].log[k].step = step /\ reqs[r].log[k].ok

\* CreateTransaction up to the first external call: decode, validate and
\* construct the transaction with a fresh id
PostBegin(r, i, b) ==
    /\ reqs[r].pc = "idle"
    /\ \A q \in 1..(r - 1) : reqs[q].pc # "idle"
    /\ proc[i].state = "serving"
    /\ IF ValidateRequest(b) # 0
       THEN /\ reqs' = [reqs EXCEPT ![r] =
                  [IdleReq EXCEPT !.pc = "done", !.op = "post", !.inst = i,
                                  !.body = b, !.status = ValidateRequest(b)]]
            /\ UNCHANGED nextId
       ELSE /\ reqs' = [reqs EXCEPT ![r] =
                  [IdleReq EXCEPT !.pc = "run", !.op = "post", !.inst = i,
                                  !.body = b,
                                  !.tx = NewTransaction(nextId, i, b),
                                  !.step = 1]]
            /\ nextId' = nextId + 1
    /\ UNCHANGED <<rows, objects, queue, nextMid, cons, proc>>

\* the effect of one external call of the pipeline on the stores
StepEffect(r, step, ok) ==
    LET tx == reqs[r].tx
        region == reqs[r].inst
    IN
    /\ rows' = IF step = "insert" /\ ok THEN rows \cup {SqlStored(tx)} ELSE rows
    /\ objects' = IF step = "audit" /\ ok
                  THEN PutObject(objects, AuditKey(region, tx.id),
                                 AuditLog(tx, region))
                  ELSE objects
    /\ IF step = "publish" /\ ok
       THEN /\ queue' = Enqueue(queue, nextMid, Marshal(SqsMessage(tx, region)))
            /\ nextMid' = nextMid + 1
       ELSE UNCHANGED <<queue, nextMid>>

\* the outcomes a call to a dependency can have: it fails when the
\* dependency is unreachable, and it may fail when it is reachable
CallOutcomes(dep) == IF up[dep] THEN BOOLEAN ELSE {FALSE}

\* the dependency that a call of the pipeline goes to
DependencyOf(step) ==
    IF step = "insert" THEN "sql" ELSE IF step = "audit" THEN "s3" ELSE "sqs"

\* the outcomes an external call can have
Outcomes(r, step) ==
    IF step = "insert" /\ ~SqlAccepts(reqs[r].tx) THEN {FALSE}
    ELSE CallOutcomes(DependencyOf(step))

\* CreateTransaction, one external call and what follows it up to the next
\* call or the response
PostStep(r) ==
    /\ reqs[r].pc = "run"
    /\ reqs[r].op = "post"
    /\ LET step == Pipeline[reqs[r].step] IN
       \E ok \in Outcomes(r, step) :
          /\ StepEffect(r, step, ok)
          /\ LET logged == Append(reqs[r].log, [step |-> step, ok |-> ok])
                 tx == IF step = "insert" /\ ok
                       THEN ScanReturning(reqs[r].tx, SqlStored(reqs[r].tx))
                       ELSE reqs[r].tx
             IN
             reqs' = [reqs EXCEPT ![r] =
                IF ~ok /\ AbortsOnFailure(step)
                THEN [@ EXCEPT !.pc = "done", !.log = logged,
                               !.status = StatusInternalServerError]
                ELSE IF reqs[r].step = Len(Pipeline)
                THEN [@ EXCEPT !.pc = "done", !.log = logged, !.tx = tx,
                               !.status = StatusCreated, !.resp = tx]
                ELSE [@ EXCEPT !.step = @ + 1, !.log = logged, !.tx = tx]]
    /\ UNCHANGED <<nextId, cons, proc>>

(***************************************************************************)
(* GET /transactions/{id}.                                                 *)
(***************************************************************************)
\* the id segment of the path: a UUID or not
Paths ==
    {[valid |-> FALSE, id |-> 0]} \cup [valid : {TRUE}, id : 1..MaxReq]

\* GetTransaction up to the lookup: uuid.Parse of the path segment
GetBegin(r, i, p) ==
    /\ reqs[r].pc = "idle"
    /\ \A q \in 1..(r - 1) : reqs[q].pc # "idle"
    /\ proc[i].state = "serving"
    /\ reqs' = [reqs EXCEPT ![r] =
          IF ~p.valid
          THEN [IdleReq EXCEPT !.pc = "done", !.op = "get", !.inst = i,
                               !.path = p, !.status = StatusBadRequest]
          ELSE [IdleReq EXCEPT !.pc = "run", !.op = "get", !.inst = i,
                               !.path = p, !.step = 1]]
    /\ UNCHANGED <<rows, objects, queue, nextId, nextMid, cons, proc>>

\* the status GetTransaction answers with when the lookup returns an error
GetErrorStatus(err) == StatusNotFound

\* GetTransaction, the lookup and the response
GetLookup(r) ==
    /\ reqs[r].pc = "run"
    /\ reqs[r].op = "get"
    /\ \E ok \in CallOutcomes("sql") :
          LET res == DbGetTransaction(rows, reqs[r].path.id, ok)
              logged == Append(reqs[r].log, [step |-> "lookup", ok |-> ok])
          IN
          reqs' = [reqs EXCEPT ![r] =
             IF res.err # ""
             THEN [@ EXCEPT !.pc = "done", !.log = logged,
                            !.status = GetErrorStatus(res.err)]
             ELSE [@ EXCEPT !.pc = "done", !.log = logged,
                            !.status = StatusOK, !.tx = res.tx,
                            !.resp = res.tx]]
    /\ UNCHANGED <<rows, objects, queue, nextId, nextMid, cons, proc>>

(***************************************************************************)
(* GET /transactions.                                                      *)
(***************************************************************************)
\* the value of a decimal digit
DigitValue(c) == CHOOSE n \in 0..9 : <<"0", "1", "2", "3", "4", "5", "6", "7", "8", "9">>[n + 1] = c

\* the value of a sequence of decimal digits
RECURSIVE DigitsValue(_)
DigitsValue(s) ==
    IF s = <<>> THEN 0
    ELSE 10 * DigitsValue(SubSeq(s, 1, Len(s) - 1)) + DigitValue(s[Len(s)])

\* strconv.Atoi: an optional sign and one or more decimal digits (the texts
\* of the model are within the range of int)
Atoi(s) ==
    LET u == Unsigned(s) IN
    IF u = <<>> \/ \E k \in 1..Len(u) : u[k] \notin Digits
    THEN [ok |-> FALSE, val |-> 0]
    ELSE [ok |-> TRUE,
          val |-> IF s[1] = "-" THEN 0 - DigitsValue(u) ELSE DigitsValue(u)]

\* the limit and the offset of ListTransactions before the query is read,
\* and the largest limit
DefaultLimit == 50
DefaultOffset == 0
MaxLimit == 100

\* a limit above the largest is cut down to it
LimitOfClamped(text) ==
    IF text # <<>> /\ Atoi(text).ok /\ Atoi(text).val > 0
    THEN IF Atoi(text).val <= MaxLimit THEN Atoi(text).val ELSE MaxLimit
    ELSE DefaultLimit

\* ListTransactions, the limit of the query: the text is the value of the
\* parameter, empty when the parameter is absent
LimitOf(text) ==
    IF text # <<>> /\ Atoi(text).ok /\ Atoi(text).val > 0 /\ Atoi(text).val <= MaxLimit
    THEN Atoi(text).val
    ELSE DefaultLimit

\* ListTransactions, the offset of the query
OffsetOf(text) ==
    IF text # <<>> /\ Atoi(text).ok /\ Atoi(text).val >= 0
    THEN Atoi(text).val
    ELSE DefaultOffset

\* ListTransactions up to the call of the store: the query is read; the
\* handler makes no use of the region of its instance
ListBegin(r, i, q) ==
    /\ reqs[r].pc = "idle"
    /\ \A p \in 1..(r - 1) : reqs[p].pc # "idle"
    /\ proc[i].state = "serving"
    /\ reqs' = [reqs EXCEPT ![r] =
          [IdleReq EXCEPT !.pc = "run", !.op = "list", !.path = q, !.step = 1]]
    /\ UNCHANGED <<rows, objects, queue, nextId, nextMid, cons, proc>>

\* ListTransactions, the call of the store and the response
ListQuery(r) ==
    /\ reqs[r].pc = "run"
    /\ reqs[r].op = "list"
    /\ LET limit == LimitOf(reqs[r].path.limit)
           offset == OffsetOf(reqs[r].path.offset)
       IN \E ok \in CallOutcomes("sql") : \E order \in Orders(rows) :
          LET res == DbListTransactions(order, limit, offset, ok)
              logged == Append(reqs[r].log,
                               [step |-> "list", ok |-> ok, limit |-> limit,
                                offset |-> offset])
          IN
          reqs' = [reqs EXCEPT ![r] =
             IF res.err # ""
             THEN [@ EXCEPT !.pc = "done", !.log = logged,
                            !.status = StatusInternalServerError]
             ELSE [@ EXCEPT !.pc = "done", !.log = logged, !.status = StatusOK,
                            !.resp = [transactions |-> res.txs, limit |-> limit,
                                      offset |-> offset]]]
    /\ UNCHANGED <<rows, objects, queue, nextId, nextMid, cons, proc>>

(***************************************************************************)
(* GET /health and GET /ready.                                             *)
(***************************************************************************)
\* the probes of Health, in the order the handler makes them
HealthProbesObjectStoreFirst == <<"s3", "sql", "sqs">>

HealthProbes == <<"sql", "s3", "sqs">>

\* the key of a dependency in the body of Health
HealthKey(dep) == IF dep = "sql" THEN "database" ELSE dep

\* Health up to the first probe: the body starts as healthy
HealthBegin(r, i) ==
    /\ reqs[r].pc = "idle"
    /\ \A q \in 1..(r - 1) : reqs[q].pc # "idle"
    /\ proc[i].state = "serving"
    /\ reqs' = [reqs EXCEPT ![r] =
          [IdleReq EXCEPT !.pc = "run", !.op = "health", !.inst = i, !.step = 1,
                          !.resp = ("status" :> "healthy") @@ ("region" :> i)]]
    /\ UNCHANGED <<rows, objects, queue, nextId, nextMid, cons, proc>>

\* the probe of the object store writes a probe object
HealthProbeWrites(r) ==
    /\ reqs[r].pc = "run"
    /\ reqs[r].op = "health"
    /\ \E ok \in CallOutcomes("s3") :
          /\ reqs' = [reqs EXCEPT ![r] =
                [@ EXCEPT !.pc = "done",
                          !.log = Append(@, [step |-> "s3", ok |-> ok]),
                          !.status = IF ok THEN StatusOK
                                     ELSE StatusServiceUnavailable]]
          /\ objects' = IF ok
                        THEN PutObject(objects, <<"health">>,
                                       [transaction_id |-> 0])
                        ELSE objects
    /\ UNCHANGED <<rows, queue, nextId, nextMid, cons, proc>>

\* Health, one probe and what follows it up to the next probe or the
\* response
HealthProbe(r) ==
    /\ reqs[r].pc = "run"
    /\ reqs[r].op = "health"
    /\ LET dep == HealthProbes[reqs[r].step] IN
       \E ok \in CallOutcomes(dep) :
          LET logged == Append(reqs[r].log, [step |-> dep, ok |-> ok]) IN
          reqs' = [reqs EXCEPT ![r] =
             IF ~ok
             THEN [@ EXCEPT !.pc = "done", !.log = logged,
                            !.status = StatusServiceUnavailable,
                            !.resp = (HealthKey(dep) :> "unhealthy")
                                     @@ ("status" :> "unhealthy") @@ @]
             ELSE IF reqs[r].step = Len(HealthProbes)
             THEN [@ EXCEPT !.pc = "done", !.log = logged, !.status = StatusOK,
                            !.resp = (HealthKey(dep) :> "healthy") @@ @]
             ELSE [@ EXCEPT !.step = @ + 1, !.log = logged,
                            !.resp = (HealthKey(dep) :> "healthy") @@ @]]
    /\ UNCHANGED <<rows, objects, queue, nextId, nextMid, cons, proc>>

\* the probes of Readiness
ReadinessProbesAll == <<"sql", "s3", "sqs">>

ReadinessProbes == <<"sql">>

\* Readiness up to its probe
ReadinessBegin(r, i) ==
    /\ reqs[r].pc = "idle"
    /\ \A q \in 1..(r - 1) : reqs[q].pc # "idle"
    /\ proc[i].state = "serving"
    /\ reqs' = [reqs EXCEPT ![r] =
          [IdleReq EXCEPT !.pc = "run", !.op = "ready", !.inst = i, !.step = 1]]
    /\ UNCHANGED <<rows, objects, queue, nextId, nextMid, cons, proc>>

\* Readiness, one probe and what follows it
ReadinessProbe(r) ==
    /\ reqs[r].pc = "run"
    /\ reqs[r].op = "ready"
    /\ LET dep == ReadinessProbes[reqs[r].step] IN
       \E ok \in CallOutcomes(dep) :
          LET logged == Append(reqs[r].log, [step |-> dep, ok |-> ok]) IN
          reqs' = [reqs EXCEPT ![r] =
             IF ~ok
             THEN [@ EXCEPT !.pc = "done", !.log = logged,
                            !.status = StatusServiceUnavailable,
                            !.resp = ("status" :> "not ready")
                                     @@ ("reason" :> "database unavailable")]
             ELSE IF reqs[r].step = Len(ReadinessProbes)
             THEN [@ EXCEPT !.pc = "done", !.log = logged, !.status = StatusOK,
                            !.resp = ("status" :> "ready")]
             ELSE [@ EXCEPT !.step = @ + 1, !.log = logged]]
    /\ UNCHANGED <<rows, objects, queue, nextId, nextMid, cons, proc>>

(***************************************************************************)
(* GET /stats and GET /live.                                               *)
(***************************************************************************)
\* SELECT col, COUNT(*) ... GROUP BY col on the rows rs, by the value of a
\* row in the column: the counts of the values that occur
GroupCount(rs, col) ==
    [v \in {t[col] : t \in rs} |-> Cardinality({t \in rs : t[col] = v})]

\* DB.GetTransactionStats, the result of the query for a key of its
\* result on the rows rs: the total, the counts by status, the counts by
\* region
StatsQueries(rs, key) ==
    IF key = "total_transactions" THEN Cardinality(rs)
    ELSE IF key = "by_status" THEN GroupCount(rs, "status")
    ELSE GroupCount(rs, "region")

\* the counts by region are queried before the counts by status
StatsKeysRegionFirst == <<"total_transactions", "by_region", "by_status">>

\* the keys of the result of GetTransactionStats, in the order of its
\* queries
StatsKeys == <<"total_transactions", "by_status", "by_region">>

\* GetStats up to the first query
StatsBegin(r, i) ==
    /\ reqs[r].pc = "idle"
    /\ \A p \in 1..(r - 1) : reqs[p].pc # "idle"
    /\ proc[i].state = "serving"
    /\ reqs' = [reqs EXCEPT ![r] =
          [IdleReq EXCEPT !.pc = "run", !.op = "stats", !.step = 1,
                          !.resp = <<>>]]
    /\ UNCHANGED <<rows, objects, queue, nextId, nextMid, cons, proc>>

\* GetStats, one query of GetTransactionStats and what follows it up to
\* the next query or the response: any failed query ends in 500
StatsQuery(r) ==
    /\ reqs[r].pc = "run"
    /\ reqs[r].op = "stats"
    /\ LET key == StatsKeys[reqs[r].step] IN
       \E ok \in CallOutcomes("sql") :
          LET logged == Append(reqs[r].log, [step |-> key, ok |-> ok])
              stats == (key :> StatsQueries(rows, key)) @@ reqs[r].resp
          IN
          reqs' = [reqs EXCEPT ![r] =
             IF ~ok
             THEN [@ EXCEPT !.pc = "done", !.log = logged,
                            !.status = StatusInternalServerError, !.resp = None]
             ELSE IF reqs[r].step = Len(StatsKeys)
             THEN [@ EXCEPT !.pc = "done", !.log = logged, !.status = StatusOK,
                            !.resp = stats]
             ELSE [@ EXCEPT !.step = @ + 1, !.log = logged, !.resp = stats]]
    /\ UNCHANGED <<rows, objects, queue, nextId, nextMid, cons, proc>>

\* Liveness: 200 without a call to any dependency
LiveBegin(r, i) ==
    /\ reqs[r].pc = "idle"
    /\ \A p \in 1..(r - 1) : reqs[p].pc # "idle"
    /\ proc[i].state = "serving"
    /\ reqs' = [reqs EXCEPT ![r] =
          [IdleReq EXCEPT !.pc = "done", !.op = "live", !.status = StatusOK,
                          !.resp = ("status" :> "alive")]]
    /\ UNCHANGED <<rows, objects, queue, nextId, nextMid, cons, proc>>

(***************************************************************************)
(* The queue, by its wire contract.                                        *)
(***************************************************************************)
\* the receipt handle of a message names the message and its delivery
Handle(m) == <<m.mid, m.rc>>

\* the messages a ReceiveMessage call can hand out
Receivable(q) == {m \in q : m.visible}

\* ReceiveMessage hands out the messages of S: each gets a new receipt
\* handle and stays invisible until its visibility timeout
Deliver(q, S) ==
    {IF m \in S THEN [m EXCEPT !.rc = @ + 1, !.visible = FALSE] ELSE m : m \in q}

\* DeleteMessage by receipt handle: the message goes when the handle is its
\* latest one; with an older handle the queue may or may not delete it
Remove(q, h, staleGone) ==
    {m \in q : ~(m.mid = h[1] /\ (m.rc = h[2] \/ staleGone))}

(***************************************************************************)
(* Queue adapter: Client.ReceiveMessages.                                  *)
(***************************************************************************)
\* json.Unmarshal of a message body into sqs.Message
Decodes(body) == body.valid

\* the envelope of a received message: the decoded body and its handle
Envelope(m) == [Message |-> m.body.msg, ReceiptHandle |-> Handle(m)]

\* the envelopes of the messages of result, decoded or not
ReceiveMessagesNoSkip(result) == {Envelope(m) : m \in result}

\* envelopes that carry the receipt handle of another message of result
ReceiveMessagesCrossed(result) ==
    {[Message |-> m.body.msg,
      ReceiptHandle |-> Handle(CHOOSE x \in result : x # m \/ result = {m})] :
        m \in {x \in result : Decodes(x.body)}}

\* the envelopes of the messages of result; a message whose body does not
\* decode is skipped
ReceiveMessages(result) == {Envelope(m) : m \in {x \in result : Decodes(x.body)}}

(***************************************************************************)
(* Consumer loop: processSQSMessages.                                      *)
(***************************************************************************)
\* the switch on msg.Action: whether the message is marked processed
ProcessedKnownOnly(action) == action = "transaction_created"

Processed(action) ==
    IF action = "transaction_created" THEN TRUE ELSE TRUE

\* the rows of the SQL store after the dispatch of msg: completing the row
DispatchCompletes(msg, rs) ==
    {IF t.id = msg.transaction_id THEN [t EXCEPT !.status = "completed"] ELSE t :
        t \in rs}

\* the rows of the SQL store after the dispatch of msg: failing the row
DispatchFails(msg, rs) ==
    {IF t.id = msg.transaction_id THEN [t EXCEPT !.status = "failed"] ELSE t :
        t \in rs}

\* the rows of the SQL store after the dispatch of msg: it only logs
Dispatch(msg, rs) == rs

\* what one iteration over envelope e does, in order: the dispatch, then
\* the delete call when the message is marked processed
IterationEvents(e, ok) ==
    <<[ev |-> "dispatch", handle |-> e.ReceiptHandle, ok |-> TRUE]>> \o
    (IF Processed(e.Message.action)
     THEN <<[ev |-> "delete", handle |-> e.ReceiptHandle, ok |-> ok]>>
     ELSE <<>>)

\* the entry of a call in the record of a consumer's latest step
Event(ev, h, ok) == [ev |-> ev, handle |-> h, ok |-> ok]

\* a tick of the timer: the receive call, which fails or hands out some of
\* the receivable messages; the loop then iterates over the envelopes, in
\* the order the queue returned them, which is any order
ConsumerReceive(i) ==
    /\ cons[i].pc = "wait"
    /\ proc[i].consumer
    /\ proc[i].state # "exited"
    /\ \/ /\ cons' = [cons EXCEPT ![i] =
                [pc |-> "proc", batch |-> {},
                 last |-> <<Event("receive", <<0, 0>>, FALSE)>>]]
          /\ UNCHANGED queue
       \/ \E S \in SUBSET Receivable(queue) :
          /\ Cardinality(S) <= MaxNumberOfMessages
          /\ cons' = [cons EXCEPT ![i] =
                [pc |-> "proc",
                 batch |-> ReceiveMessages(Deliver(queue, S) \ queue),
                 last |-> <<Event("receive", <<0, 0>>, TRUE)>>]]
          /\ queue' = Deliver(queue, S)
    /\ UNCHANGED <<rows, objects, nextId, nextMid, reqs, proc>>

\* one iteration of the loop, over envelope e
ConsumerProcess(i, e) ==
    /\ cons[i].pc = "proc"
    /\ e \in cons[i].batch
    /\ proc[i].state # "exited"
    /\ \E ok \in BOOLEAN, staleGone \in BOOLEAN :
          /\ rows' = Dispatch(e.Message, rows)
          /\ queue' = IF Processed(e.Message.action) /\ ok
                      THEN Remove(queue, e.ReceiptHandle, staleGone)
                      ELSE queue
          /\ cons' = [cons EXCEPT ![i] =
                [pc |-> "proc", batch |-> cons[i].batch \ {e},
                 last |-> IterationEvents(e, ok)]]
    /\ UNCHANGED <<objects, nextId, nextMid, reqs, proc>>

\* the end of the tick: the loop waits for the next tick of the timer
ConsumerTickEnd(i) ==
    /\ cons[i].pc = "proc"
    /\ cons[i].batch = {}
    /\ proc[i].state # "exited"
    /\ cons' = [cons EXCEPT ![i] = [pc |-> "wait", batch |-> {}, last |-> <<>>]]
    /\ UNCHANGED <<rows, objects, queue, nextId, nextMid, reqs, proc>>

(***************************************************************************)
(* The environment of the queue.                                           *)
(***************************************************************************)
\* the number of visibility timeouts that have expired on the messages of q:
\* every delivery of a message but its first follows one, and so does the
\* return of a delivered message to the receivable ones
RECURSIVE Redeliveries(_)
Redeliveries(q) ==
    IF q = {} THEN 0
    ELSE LET m == CHOOSE x \in q : TRUE IN
         (IF m.rc = 0 THEN 0 ELSE m.rc - 1 + (IF m.visible THEN 1 ELSE 0))
         + Redeliveries(q \ {m})

\* the visibility timeout of a delivered message expires
VisibilityTimeout(m) ==
    /\ m \in queue
    /\ ~m.visible
    /\ Redeliveries(queue) < MaxRedeliver
    /\ queue' = (queue \ {m}) \cup {[m EXCEPT !.visible = TRUE]}
    /\ UNCHANGED <<rows, objects, nextId, nextMid, reqs, cons, proc>>

\* a dependency becomes unreachable, or reachable again
Outage(dep) ==
    /\ up' = [up EXCEPT ![dep] = ~@]
    /\ UNCHANGED <<rows, objects, queue, nextId, nextMid, reqs, cons, proc, call,
                 created, ens>>

\* no client has called the store interface
NoCall == [op |-> "", id |-> 0, status |-> "", err |-> ""]

\* the statuses that the clients of the store interface pass: the status is
\* a string that neither UpdateTransactionStatus nor the table checks
StatusArgs == {"pending", "completed"}

\* a client of the store interface calls UpdateTransactionStatus
UpdateStatusCall(id, status) ==
    /\ \E ok \in CallOutcomes("sql") :
          LET res == DbUpdateTransactionStatus(rows, id, status, ok) IN
          /\ rows' = res.rows
          /\ call' = [op |-> "UpdateStatus", id |-> id, status |-> status,
                      err |-> res.err]
    /\ UNCHANGED <<objects, queue, nextId, nextMid, reqs, cons, proc, up,
                 created, ens>>

\* the calls of a client that reads two pages of n rows and then one page
\* of 2n rows: List(n, 0), List(n, n), List(2n, 0)
PageArgs(n) ==
    <<[limit |-> n, offset |-> 0], [limit |-> n, offset |-> n],
      [limit |-> 2 * n, offset |-> 0]>>

\* a client of the store interface makes the next ListTransactions call of
\* its pagination
ListCall(n) ==
    /\ \/ call = NoCall
       \/ call.op = "List" /\ call.n = n /\ Len(call.pages) < Len(PageArgs(n))
    /\ LET done == IF call = NoCall THEN <<>> ELSE call.pages
           args == PageArgs(n)[Len(done) + 1]
       IN \E ok \in CallOutcomes("sql") : \E order \in Orders(rows) :
             call' = [op |-> "List", n |-> n,
                      pages |-> Append(done,
                          DbListTransactions(order, args.limit, args.offset, ok))]
    /\ UNCHANGED <<rows, objects, queue, nextId, nextMid, reqs, cons, proc, up,
                 created, ens>>

(***************************************************************************)
(* Lifecycle supervisor: main up to the wait for the signal.               *)
(***************************************************************************)
\* the steps of main that can fail, in the order main takes them: load the
\* secrets, construct the SQL adapter (ping), the object-store adapter
\* (ensure bucket) and the queue adapter (ensure queue)
Startup == <<"secrets", "db", "s3", "sqs">>

\* whether the failure of a startup step ends the process
StartupAbortsButQueue(step) == step # "sqs"

StartupAborts(step) == TRUE

\* the outcomes of a startup step: the password is set or not, and the
\* calls to the dependencies
StartupOutcomes(step) ==
    IF step = "secrets" THEN BOOLEAN
    ELSE CallOutcomes(IF step = "db" THEN "sql" ELSE step)

\* the startup steps a process has taken all succeeded
AllSucceeded(done) == \A k \in 1..Len(done) : done[k].ok

\* the process ends: its requests in flight are cut off and its loop stops
Ended(i, code) ==
    /\ proc' = [proc EXCEPT ![i].state = "exited", ![i].exitCode = code]
    /\ reqs' = [r \in Reqs |->
          IF reqs[r].inst = i /\ reqs[r].pc = "run"
          THEN [reqs[r] EXCEPT !.pc = "killed"] ELSE reqs[r]]
    /\ cons' = [cons EXCEPT ![i].pc = "stopped"]

\* main, one startup step: its failure is fatal
StartupStep(i) ==
    /\ proc[i].state = "starting"
    /\ Len(proc[i].done) < Len(Startup)
    /\ LET step == Startup[Len(proc[i].done) + 1] IN
       \E ok \in StartupOutcomes(step) :
          LET taken == Append(proc[i].done, [step |-> step, ok |-> ok]) IN
          IF ~ok /\ StartupAborts(step)
          THEN proc' = [proc EXCEPT ![i].state = "exited", ![i].done = taken,
                                    ![i].exitCode = FatalCode]
          ELSE proc' = [proc EXCEPT ![i].done = taken]
    /\ UNCHANGED <<rows, objects, queue, nextId, nextMid, reqs, cons>>

\* main after startup step `step` returned: its failure is fatal
StepTaken(i, step, ok) ==
    LET taken == Append(proc[i].done, [step |-> step, ok |-> ok]) IN
    IF ~ok /\ StartupAborts(step)
    THEN proc' = [proc EXCEPT ![i].state = "exited", ![i].done = taken,
                              ![i].exitCode = FatalCode]
    ELSE proc' = [proc EXCEPT ![i].done = taken]

\* the startup step that main of instance i takes next
AtStep(i, step) ==
    /\ proc[i].state = "starting"
    /\ Len(proc[i].done) < Len(Startup)
    /\ Startup[Len(proc[i].done) + 1] = step

\* ensureBucket gives up when CreateBucket fails
EnsureBucketNoRecheck(pc, ok) ==
    IF ok THEN "ok" ELSE IF pc = "head" THEN "create" ELSE "error"

\* ensureBucket, where it goes after a call: HeadBucket, then CreateBucket
\* when that failed, then HeadBucket again when that failed, then the
\* error of CreateBucket when that failed too
EnsureBucketNext(pc, ok) ==
    IF ok THEN "ok"
    ELSE IF pc = "head" THEN "create"
    ELSE IF pc = "create" THEN "recheck"
    ELSE "error"

\* the call ensureBucket makes at a position
BucketCall(pc) == IF pc = "create" THEN "create" ELSE "head"

\* the outcomes of a call of ensureBucket that reaches the object store:
\* HeadBucket succeeds when the bucket exists; CreateBucket succeeds when
\* it does not, and on a bucket that exists it fails or succeeds again,
\* by the region of the store
BucketOutcomes(pc) ==
    IF BucketCall(pc) = "head" THEN {"bucket" \in created}
    ELSE IF "bucket" \in created THEN BOOLEAN ELSE {TRUE}

\* s3.New, one call of ensureBucket and what follows it up to the next
\* call or the return to main
EnsureBucketCall(i) ==
    /\ AtStep(i, "s3")
    /\ LET pc == ens[i].bucket.pc IN
       \E reached \in CallOutcomes("s3") :
       \E ok \in IF reached THEN BucketOutcomes(pc) ELSE {FALSE} :
          LET next == EnsureBucketNext(pc, ok) IN
          /\ ens' = [ens EXCEPT ![i].bucket =
                [pc |-> next,
                 log |-> Append(@.log, [call |-> BucketCall(pc), ok |-> ok,
                                        reached |-> reached])]]
          /\ created' = IF BucketCall(pc) = "create" /\ ok
                        THEN created \cup {"bucket"} ELSE created
          /\ IF next \in {"ok", "error"} THEN StepTaken(i, "s3", next = "ok")
             ELSE UNCHANGED proc
    /\ UNCHANGED <<rows, objects, queue, nextId, nextMid, reqs, cons>>

\* ensureQueue looks the URL up again when CreateQueue fails
EnsureQueueRechecks(pc, ok) ==
    IF ok THEN "ok"
    ELSE IF pc = "get" THEN "create"
    ELSE IF pc = "create" THEN "get2"
    ELSE "error"

\* ensureQueue, where it goes after a call: GetQueueUrl, then CreateQueue
\* when that failed, then the error of CreateQueue when that failed
EnsureQueueNext(pc, ok) ==
    IF ok THEN "ok" ELSE IF pc = "get" THEN "create" ELSE "error"

\* the call ensureQueue makes at a position
QueueCall(pc) == IF pc = "create" THEN "create" ELSE "get"

\* the URL of the queue
QueueUrl == "url"

\* the outcomes of a call of ensureQueue that reaches the queue service:
\* GetQueueUrl succeeds when the queue exists, CreateQueue with the
\* attributes of the queue succeeds whether it exists or not
QueueOutcomes(pc) ==
    IF QueueCall(pc) = "get" THEN {"queue" \in created} ELSE {TRUE}

\* sqs.New, one call of ensureQueue and what follows it up to the next call
\* or the return to main
EnsureQueueCall(i) ==
    /\ AtStep(i, "sqs")
    /\ LET pc == ens[i].queue.pc IN
       \E reached \in CallOutcomes("sqs") :
       \E ok \in IF reached THEN QueueOutcomes(pc) ELSE {FALSE} :
          LET next == EnsureQueueNext(pc, ok) IN
          /\ ens' = [ens EXCEPT ![i].queue =
                [pc |-> next,
                 log |-> Append(@.log, [call |-> QueueCall(pc), ok |-> ok,
                                        reached |-> reached]),
                 url |-> IF next = "ok" THEN QueueUrl ELSE ""]]
          /\ created' = IF QueueCall(pc) = "create" /\ ok
                        THEN created \cup {"queue"} ELSE created
          /\ IF next \in {"ok", "error"} THEN StepTaken(i, "sqs", next = "ok")
             ELSE UNCHANGED proc
    /\ UNCHANGED <<rows, objects, queue, nextId, nextMid, reqs, cons>>

\* main starts the goroutine of the HTTP server, which listens
StartServer(i) ==
    /\ proc[i].state = "starting"
    /\ Len(proc[i].done) = Len(Startup)
    /\ proc' = [proc EXCEPT ![i].state = "serving", ![i].server = TRUE]
    /\ UNCHANGED <<rows, objects, queue, nextId, nextMid, reqs, cons>>

\* main starts the goroutine of the consumer loop and waits for the signal
StartConsumer(i) ==
    /\ proc[i].state = "serving"
    /\ ~proc[i].consumer
    /\ proc' = [proc EXCEPT ![i].consumer = TRUE]
    /\ UNCHANGED <<rows, objects, queue, nextId, nextMid, reqs, cons>>

\* the goroutine of the HTTP server: ListenAndServe returns an error other
\* than ErrServerClosed (the port is taken, the listener breaks), which is
\* fatal
ListenAndServeFails(i) ==
    /\ proc[i].state = "serving"
    /\ Ended(i, FatalCode)
    /\ UNCHANGED <<rows, objects, queue, nextId, nextMid>>

(***************************************************************************)
(* Lifecycle supervisor: main from the wait for the signal on.             *)
(***************************************************************************)
\* the requests an instance is serving
InFlight(i) == {r \in Reqs : reqs[r].inst = i /\ reqs[r].pc = "run"}

\* the exit status of main after server.Shutdown returned err
ExitCodeOfErr(err) == IF err THEN 1 ELSE 0

ExitCode(err) == 0

\* <-quit, then server.Shutdown closes the listener
Signal(i) ==
    /\ proc[i].state = "serving"
    /\ proc[i].consumer
    /\ proc' = [proc EXCEPT ![i].state = "draining"]
    /\ UNCHANGED <<rows, objects, queue, nextId, nextMid, reqs, cons>>

\* server.Shutdown returns nil once no request is in flight, and the error
\* of its context once the 30 s deadline has passed with requests in flight
ShutdownReturns(inflight, expired) ==
    IF inflight = {} THEN ~expired ELSE expired

\* server.Shutdown returns; main logs its error and returns, and the
\* process ends with all its tasks
ShutdownReturn(i) ==
    /\ proc[i].state = "draining"
    /\ \E expired \in BOOLEAN :
          /\ ShutdownReturns(InFlight(i), expired)
          /\ proc' = [proc EXCEPT ![i].state = "exited",
                                   ![i].exitCode = ExitCode(expired),
                                   ![i].shutdownErr = expired]
    /\ reqs' = [r \in Reqs |->
          IF r \in InFlight(i) THEN [reqs[r] EXCEPT !.pc = "killed"] ELSE reqs[r]]
    /\ cons' = [cons EXCEPT ![i].pc = "stopped"]
    /\ UNCHANGED <<rows, objects, queue, nextId, nextMid>>

(***************************************************************************)
(* Initial states.                                                         *)
(***************************************************************************)
IdleConsumer == [pc |-> "wait", batch |-> {}, last |-> <<>>]

\* the dependencies of the service, all reachable
Dependencies == {"sql", "s3", "sqs"}
AllUp == [d \in Dependencies |-> TRUE]


\* the bucket of the object store and the queue
Containers == {"bucket", "queue"}

\* ensureBucket and ensureQueue before their first call
IdleEnsure ==
    [bucket |-> [pc |-> "head", log |-> <<>>],
     queue |-> [pc |-> "get", log |-> <<>>, url |-> ""]]

\* a process that has completed its startup
Serving ==
    [state |-> "serving", exitCode |-> -1, shutdownErr |-> FALSE,
     done |-> [k \in 1..Len(Startup) |-> [step |-> Startup[k], ok |-> TRUE]],
     server |-> TRUE, consumer |-> TRUE]

\* a process at the start of main
Starting ==
    [state |-> "starting", exitCode |-> -1, shutdownErr |-> FALSE,
     done |-> <<>>, server |-> FALSE, consumer |-> FALSE]

\* every instance is at the start of main and the stores are empty
InitStarting ==
    /\ rows = {}
    /\ objects = {}
    /\ queue = {}
    /\ nextId = 1
    /\ nextMid = 1
    /\ reqs = [r \in Reqs |-> IdleReq]
    /\ cons = [i \in Instances |-> IdleConsumer]
    /\ proc = [i \in Instances |-> Starting]
    /\ up = AllUp
    /\ call = NoCall
    /\ created = Containers
    /\ ens = [i \in Instances |-> IdleEnsure]

\* every instance has completed its startup and the stores are empty
Init ==
    /\ rows = {}
    /\ objects = {}
    /\ queue = {}
    /\ nextId = 1
    /\ nextMid = 1
    /\ reqs = [r \in Reqs |-> IdleReq]
    /\ cons = [i \in Instances |-> IdleConsumer]
    /\ proc = [i \in Instances |-> Serving]
    /\ up = AllUp
    /\ call = NoCall
    /\ created = Containers
    /\ ens = [i \in Instances |-> IdleEnsure]

\* a body that passes validation and that the SQL store accepts
GoodBody ==
    [decodable |-> TRUE, from_account |-> "acc1", to_account |-> "acc2",
     amount |-> <<"1", ".", "5">>]

\* the transaction of the k-th earlier request, ingested in us-east-1
EarlierTx(k) == SqlStored(NewTransaction(k, "us-east-1", GoodBody))

\* the bodies of the messages in the queue: published by the ingest
\* pipeline, sent by another producer with an unknown action, or not JSON
BodyOfKind(kind, k) ==
    IF kind = "created" THEN Marshal(SqsMessage(EarlierTx(k), "us-east-1"))
    ELSE IF kind = "other"
    THEN Marshal([transaction_id |-> 0, region |-> "us-east-1", action |-> "other"])
    ELSE InvalidJson

\* every instance has completed its startup, c earlier requests have been
\* served in full, and the queue holds their c messages, o messages of
\* other producers and v messages that are not JSON, all undelivered
InitLoaded ==
    \E c \in 0..MaxMsg : \E o \in 0..(MaxMsg - c) : \E v \in 0..(MaxMsg - c - o) :
        LET KindOf(k) == IF k <= c THEN "created"
                         ELSE IF k <= c + o THEN "other" ELSE "invalid"
            n == c + o + v
        IN
        /\ rows = {EarlierTx(k) : k \in 1..c}
        /\ objects = {[key |-> AuditKey("us-east-1", k),
                       body |-> AuditLog(EarlierTx(k), "us-east-1")] : k \in 1..c}
        /\ queue = {[mid |-> k, body |-> BodyOfKind(KindOf(k), k), rc |-> 0,
                     visible |-> TRUE] : k \in 1..n}
        /\ nextId = c + 1
        /\ nextMid = n + 1
        /\ reqs = [r \in Reqs |-> IdleReq]
        /\ cons = [i \in Instances |-> IdleConsumer]
        /\ proc = [i \in Instances |-> Serving]
        /\ up = AllUp
        /\ call = NoCall
        /\ created = Containers
        /\ ens = [i \in Instances |-> IdleEnsure]

\* the clock readings of the instances, which can coincide
Clock == 1..2

\* every instance has completed its startup and c earlier requests have
\* been served in full, each by some instance at some reading of its clock
InitListed ==
    \E c \in 0..MaxReq : \E inst \in [1..c -> Instances] : \E at \in [1..c -> Clock] :
        /\ rows = {SqlStored([NewTransaction(k, inst[k], GoodBody)
                                 EXCEPT !.timestamp = Now(at[k])]) : k \in 1..c}
        /\ objects = {}
        /\ queue = {}
        /\ nextId = c + 1
        /\ nextMid = 1
        /\ reqs = [r \in Reqs |-> IdleReq]
        /\ cons = [i \in Instances |-> IdleConsumer]
        /\ proc = [i \in Instances |-> Serving]
        /\ up = AllUp
        /\ call = NoCall
        /\ created = Containers
        /\ ens = [i \in Instances |-> IdleEnsure]

\* every instance has completed its startup and MaxReq earlier requests
\* have been served in full, at different times
InitStocked ==
    /\ rows = {EarlierTx(k) : k \in 1..MaxReq}
    /\ objects = {[key |-> AuditKey("us-east-1", k),
                   body |-> AuditLog(EarlierTx(k), "us-east-1")] : k \in 1..MaxReq}
    /\ queue = {}
    /\ nextId = MaxReq + 1
    /\ nextMid = MaxReq + 1
    /\ reqs = [r \in Reqs |-> IdleReq]
    /\ cons = [i \in Instances |-> IdleConsumer]
    /\ proc = [i \in Instances |-> Serving]
    /\ up = AllUp
    /\ call = NoCall
    /\ created = Containers
    /\ ens = [i \in Instances |-> IdleEnsure]

\* a process whose main has loaded the secrets and connected to the SQL
\* store
Connected ==
    [Starting EXCEPT !.done = <<[step |-> "secrets", ok |-> TRUE],
                                [step |-> "db", ok |-> TRUE]>>]

\* every instance is about to construct its object-store adapter; the
\* bucket and the queue exist or not
InitBootstrap ==
    /\ rows = {}
    /\ objects = {}
    /\ queue = {}
    /\ nextId = 1
    /\ nextMid = 1
    /\ reqs = [r \in Reqs |-> IdleReq]
    /\ cons = [i \in Instances |-> IdleConsumer]
    /\ proc = [i \in Instances |-> Connected]
    /\ up = AllUp
    /\ call = NoCall
    /\ created \in SUBSET Containers
    /\ ens = [i \in Instances |-> IdleEnsure]

\* the queries of GET /transactions: the texts of limit and offset, empty
\* when the parameter is absent
Texts ==
    {<<>>, <<"a", "b", "c">>, <<"1", "a">>, <<"-", "1">>, <<"0">>, <<"1">>,
     <<"+", "2">>, <<"0", "3">>, <<"1", "0", "0">>, <<"1", "0", "1">>,
     <<"2", "0", "0">>}
Queries ==
    [limit : Texts, offset : {<<>>}] \cup [limit : {<<>>}, offset : Texts]
        \cup {[limit |-> <<"1">>, offset |-> <<"1">>]}

\* the steps of the service leave the reachability of its dependencies and
\* the clients of the store interface alone
Post ==
    /\ \E r \in Reqs, i \in Instances, b \in Bodies : PostBegin(r, i, b)
    /\ UNCHANGED <<up, call, created, ens>>
PostGood ==
    /\ \E r \in Reqs, i \in Instances : PostBegin(r, i, GoodBody)
    /\ UNCHANGED <<up, call, created, ens>>
PostCall ==
    /\ \E r \in Reqs : PostStep(r)
    /\ UNCHANGED <<up, call, created, ens>>
Receive ==
    /\ \E i \in Instances : ConsumerReceive(i)
    /\ UNCHANGED <<up, call, created, ens>>
Process ==
    /\ \E i \in Instances : \E e \in cons[i].batch : ConsumerProcess(i, e)
    /\ UNCHANGED <<up, call, created, ens>>
TickEnd ==
    /\ \E i \in Instances : ConsumerTickEnd(i)
    /\ UNCHANGED <<up, call, created, ens>>
Redeliver ==
    /\ \E m \in queue : VisibilityTimeout(m)
    /\ UNCHANGED <<up, call, created, ens>>
Terminate ==
    /\ \E i \in Instances : Signal(i)
    /\ UNCHANGED <<up, call, created, ens>>
Exit ==
    /\ \E i \in Instances : ShutdownReturn(i)
    /\ UNCHANGED <<up, call, created, ens>>
Boot ==
    /\ \E i \in Instances : StartupStep(i)
    /\ UNCHANGED <<up, call, created, ens>>
Listen ==
    /\ \E i \in Instances : StartServer(i)
    /\ UNCHANGED <<up, call, created, ens>>
Consume ==
    /\ \E i \in Instances : StartConsumer(i)
    /\ UNCHANGED <<up, call, created, ens>>
ListenFails ==
    /\ \E i \in Instances : ListenAndServeFails(i)
    /\ UNCHANGED <<up, call, created, ens>>
Get ==
    /\ \E r \in Reqs, i \in Instances, p \in Paths : GetBegin(r, i, p)
    /\ UNCHANGED <<up, call, created, ens>>
GetCall ==
    /\ \E r \in Reqs : GetLookup(r)
    /\ UNCHANGED <<up, call, created, ens>>

\* the ingest pipeline, with every request body
NextIngest == Post \/ PostCall
SpecIngest == Init /\ [][NextIngest]_vars

Health ==
    /\ \E r \in Reqs, i \in Instances : HealthBegin(r, i)
    /\ UNCHANGED <<up, call, created, ens>>
HealthCall ==
    /\ \E r \in Reqs : HealthProbe(r)
    /\ UNCHANGED <<up, call, created, ens>>
Ready ==
    /\ \E r \in Reqs, i \in Instances : ReadinessBegin(r, i)
    /\ UNCHANGED <<up, call, created, ens>>
ReadyCall ==
    /\ \E r \in Reqs : ReadinessProbe(r)
    /\ UNCHANGED <<up, call, created, ens>>
Fault == \E dep \in Dependencies : Outage(dep)
Update == \E id \in 1..MaxReq, status \in StatusArgs : UpdateStatusCall(id, status)
Paginate == \E n \in 1..MaxReq : ListCall(n)

\* a client of the store interface pages through a store that does not
\* change
NextList == Paginate \/ Fault
SpecList == InitListed /\ [][NextList]_vars

List ==
    /\ \E r \in Reqs, i \in Instances, q \in Queries : ListBegin(r, i, q)
    /\ UNCHANGED <<up, call, created, ens>>
ListCallStore ==
    /\ \E r \in Reqs : ListQuery(r)
    /\ UNCHANGED <<up, call, created, ens>>

\* GET /transactions with every query, on the rows of earlier requests
NextListing == List \/ ListCallStore
SpecListing == InitStocked /\ [][NextListing]_vars

EnsureBucket ==
    /\ \E i \in Instances : EnsureBucketCall(i)
    /\ UNCHANGED <<up, call>>
EnsureQueue ==
    /\ \E i \in Instances : EnsureQueueCall(i)
    /\ UNCHANGED <<up, call>>

\* the instances construct their object-store and queue adapters at the
\* same time, then serve
NextBootstrap == EnsureBucket \/ EnsureQueue \/ Listen \/ Consume
SpecBootstrap == InitBootstrap /\ [][NextBootstrap]_vars

Stats ==
    /\ \E r \in Reqs, i \in Instances : StatsBegin(r, i)
    /\ UNCHANGED <<up, call, created, ens>>
StatsCall ==
    /\ \E r \in Reqs : StatsQuery(r)
    /\ UNCHANGED <<up, call, created, ens>>
Live ==
    /\ \E r \in Reqs, i \in Instances : LiveBegin(r, i)
    /\ UNCHANGED <<up, call, created, ens>>

\* GET /stats while the ingest pipeline inserts
NextStats == PostGood \/ PostCall \/ Stats \/ StatsCall
SpecStats == Init /\ [][NextStats]_vars

\* GET /transactions without parameters and with limit=1&offset=1
Pages ==
    {[limit |-> <<>>, offset |-> <<>>], [limit |-> <<"1">>, offset |-> <<"1">>]}
ListPage ==
    /\ \E r \in Reqs, i \in Instances, q \in Pages : ListBegin(r, i, q)
    /\ UNCHANGED <<up, call, created, ens>>

\* every route of the router, while the ingest pipeline runs
NextRoutes ==
    PostGood \/ PostCall \/ Get \/ GetCall \/ ListPage \/ ListCallStore
    \/ Stats \/ StatsCall \/ Health \/ HealthCall \/ Ready \/ ReadyCall \/ Live
SpecRoutes == Init /\ [][NextRoutes]_vars

\* both instances serve and the stores are empty; the consumer loop of
\* us-east-1 runs, main of eu-central-1 has yet to start its own
InitService ==
    /\ rows = {}
    /\ objects = {}
    /\ queue = {}
    /\ nextId = 1
    /\ nextMid = 1
    /\ reqs = [r \in Reqs |-> IdleReq]
    /\ cons = [i \in Instances |-> IdleConsumer]
    /\ proc = [i \in Instances |->
                 IF i = "us-east-1" THEN Serving
                 ELSE [Serving EXCEPT !.consumer = FALSE]]
    /\ up = AllUp
    /\ call = NoCall
    /\ created = Containers
    /\ ens = [i \in Instances |-> IdleEnsure]

\* the ingest pipeline and reads at both instances while a consumer loop
\* ticks
NextService ==
    PostGood \/ PostCall \/ Get \/ GetCall \/ Live \/ Receive \/ Process
    \/ TickEnd
SpecService == InitService /\ [][NextService]_vars

\* the health endpoint while dependencies come and go
NextHealth == Health \/ HealthCall \/ Fault
SpecHealth == Init /\ [][NextHealth]_vars

\* the readiness endpoint and the ingest pipeline while dependencies come
\* and go
NextReady == PostGood \/ PostCall \/ Ready \/ ReadyCall \/ Fault
SpecReady == Init /\ [][NextReady]_vars

\* the consumer loops and the clients of the store interface
NextStatus == Receive \/ Process \/ TickEnd \/ Update
SpecStatus == InitLoaded /\ [][NextStatus]_vars

\* requests that create transactions and requests that read them
NextRead == PostGood \/ PostCall \/ Get \/ GetCall
SpecRead == Init /\ [][NextRead]_vars

\* the consumer loops on a loaded queue
NextConsumer == Receive \/ Process \/ TickEnd \/ Redeliver
SpecConsumer == InitLoaded /\ [][NextConsumer]_vars

\* the delivered messages of q that no consumer holds an envelope of: they
\* come back only by their visibility timeout
Stranded(q, cs) ==
    {m \in q : /\ ~m.visible
               /\ \A i \in Instances : \A e \in cs[i].batch :
                     e.ReceiptHandle # Handle(m)}

\* calls to the queue fail and messages time out only so often: every
\* message that waits for its visibility timeout gets it
Budget ==
    Redeliveries(queue) + Cardinality(Stranded(queue, cons)) <= MaxRedeliver

FairReceive == Receive /\ Budget'
FairProcess == Process /\ Budget'
FairRedeliver == Redeliver /\ Budget'

\* the kinds of the messages that were published to the queue
Published == <<"created", "other">>

\* message k is handed out, becomes visible again
DeliverOf(k) ==
    /\ FairReceive
    /\ \E m \in queue : m.mid = k /\ m.visible
    /\ \E m \in queue' : m.mid = k /\ ~m.visible
TimeoutOf(k) ==
    /\ FairRedeliver
    /\ \E m \in queue : m.mid = k /\ ~m.visible
    /\ \E m \in queue' : m.mid = k /\ m.visible

\* every instance has completed its startup, and the queue holds the
\* message of an earlier request and a message of another producer
InitTicking ==
    /\ rows = {EarlierTx(1)}
    /\ objects = {[key |-> AuditKey("us-east-1", 1),
                   body |-> AuditLog(EarlierTx(1), "us-east-1")]}
    /\ queue = {[mid |-> k, body |-> BodyOfKind(Published[k], k), rc |-> 0,
                 visible |-> TRUE] : k \in 1..Len(Published)}
    /\ nextId = 2
    /\ nextMid = Len(Published) + 1
    /\ reqs = [r \in Reqs |-> IdleReq]
    /\ cons = [i \in Instances |-> IdleConsumer]
    /\ proc = [i \in Instances |-> Serving]
    /\ up = AllUp
    /\ call = NoCall
    /\ created = Containers
    /\ ens = [i \in Instances |-> IdleEnsure]

\* the consumer loops tick for ever: an iteration that has its envelope
\* runs, the loop goes back to its timer, a receive call hands out a
\* message that stays receivable, and a visibility timeout expires
NextTicking == FairReceive \/ FairProcess \/ TickEnd \/ FairRedeliver
Ticking ==
    /\ WF_vars(FairProcess)
    /\ WF_vars(TickEnd)
    /\ \A k \in 1..Len(Published) :
          /\ SF_vars(DeliverOf(k))
          /\ WF_vars(TimeoutOf(k))
SpecTicking == InitTicking /\ [][NextTicking]_vars /\ Ticking

\* the HTTP server and the shutdown of the process
NextShutdown == PostGood \/ PostCall \/ Terminate \/ Exit
SpecShutdown == Init /\ [][NextShutdown]_vars

\* the consumer loops and the shutdown of the process
NextConsumerExit == Receive \/ Process \/ TickEnd \/ Redeliver \/ Terminate \/ Exit
SpecConsumerExit == InitLoaded /\ [][NextConsumerExit]_vars

\* the process from the start of main to its exit, serving requests
NextStartup ==
    Boot \/ Listen \/ Consume \/ ListenFails \/ PostGood \/ PostCall
    \/ Terminate \/ Exit
SpecStartup == InitStarting /\ [][NextStartup]_vars

\* the process from the start of main to its exit, serving requests and
\* consuming the queue
NextLifecycle ==
    Boot \/ Listen \/ Consume \/ ListenFails \/ PostGood \/ PostCall
    \/ Receive \/ Process \/ TickEnd \/ Terminate \/ Exit
SpecLifecycle == InitStarting /\ [][NextLifecycle]_vars

\* the whole service from the end of startup to the exit of the process
Next ==
    PostGood \/ PostCall \/ Receive \/ Process \/ TickEnd \/ Redeliver
    \/ Terminate \/ Exit
Spec == InitLoaded /\ [][Next]_vars

(***************************************************************************)
(* Properties of the ingest pipeline (SpecIngest).                         *)
(***************************************************************************)
\* the requests that have called the SQL insert and got an error
InsertFailed(r) == Attempted(r, "insert") /\ ~Succeeded(r, "insert")

\* the objects and messages that carry transaction id
ObjectsOf(id) == {o \in objects : o.body.transaction_id = id}
MessagesOf(id) ==
    {m \in queue : Decodes(m.body) /\ m.body.msg.transaction_id = id}

\* the request body lacks a required field or is not decodable JSON
MissingField(b) ==
    ~b.decodable \/ b.from_account = "" \/ b.to_account = "" \/ b.amount = <<>>

\* C1: a POST with a valid body whose SQL insert fails is answered 500, and
\* the request neither calls the object store nor the queue: no audit
\* object and no message of its transaction exists
C1_InsertFailureAborts ==
    \A r \in Reqs : InsertFailed(r) =>
        /\ reqs[r].pc = "done"
        /\ reqs[r].status = StatusInternalServerError
        /\ ~Attempted(r, "audit")
        /\ ~Attempted(r, "publish")
        /\ ObjectsOf(reqs[r].tx.id) = {}
        /\ MessagesOf(reqs[r].tx.id) = {}

\* C1 witness: a request whose insert failed has been answered, while the
\* stores hold the audit object and the message of another request
C1_Witness ==
    \E r \in Reqs :
        /\ InsertFailed(r)
        /\ reqs[r].pc = "done"
        /\ SqlAccepts(reqs[r].tx)
        /\ objects # {}
        /\ queue # {}

\* C2: a POST whose SQL insert succeeded is never aborted: once answered it
\* has attempted the audit write and the publish, and the answer is 201
\* whatever the outcome of the two calls
C2_NoAbortAfterInsert ==
    \A r \in Reqs : Succeeded(r, "insert") =>
        /\ reqs[r].pc \in {"run", "done"}
        /\ reqs[r].pc = "done" =>
              /\ reqs[r].status = StatusCreated
              /\ Attempted(r, "audit")
              /\ Attempted(r, "publish")

\* C2 witness: one request answered 201 after its audit write failed and
\* its publish succeeded, another after its audit write succeeded and its
\* publish failed
C2_Witness ==
    \E r1, r2 \in Reqs :
        /\ reqs[r1].pc = "done" /\ reqs[r1].status = StatusCreated
        /\ Attempted(r1, "audit") /\ ~Succeeded(r1, "audit")
        /\ Succeeded(r1, "publish")
        /\ reqs[r2].pc = "done" /\ reqs[r2].status = StatusCreated
        /\ Succeeded(r2, "audit")
        /\ Attempted(r2, "publish") /\ ~Succeeded(r2, "publish")

\* the calls of a request, in the order it made them
Calls(r) == [k \in 1..Len(reqs[r].log) |-> reqs[r].log[k].step]

\* C3: every audit object and every queue message of transaction T exists
\* only if the row of T is in the SQL store, and the calls of one request
\* are made in the order insert, audit, publish
C3_RowBeforeAuditAndPublish ==
    /\ \A o \in objects : \E t \in rows : t.id = o.body.transaction_id
    /\ \A m \in queue : Decodes(m.body) =>
          \E t \in rows : t.id = m.body.msg.transaction_id
    /\ \A r \in Reqs :
          /\ Len(Calls(r)) <= 3
          /\ Calls(r) = SubSeq(<<"insert", "audit", "publish">>, 1, Len(Calls(r)))

\* C3 witness: two requests on different instances interleave: the one
\* that started later has published while the earlier one has written its
\* audit object and not yet published
C3_Witness ==
    \E r1, r2 \in Reqs :
        /\ reqs[r1].pc = "done" /\ reqs[r2].pc = "run"
        /\ reqs[r1].status = StatusCreated
        /\ reqs[r1].inst # reqs[r2].inst
        /\ reqs[r2].tx.id < reqs[r1].tx.id
        /\ MessagesOf(reqs[r1].tx.id) # {}
        /\ ObjectsOf(reqs[r2].tx.id) # {}
        /\ ~Attempted(r2, "publish")

\* C4: a POST whose body is not decodable or lacks from_account, to_account
\* or amount is answered 400 and has made no call to any store
C4_MissingFieldRejected ==
    \A r \in Reqs : (reqs[r].pc # "idle" /\ MissingField(reqs[r].body)) =>
        /\ reqs[r].pc = "done"
        /\ reqs[r].status = StatusBadRequest
        /\ reqs[r].log = <<>>
        /\ reqs[r].tx = None

\* C4 witness: a request with only from_account missing was answered 400
\* while another request went through the pipeline
C4_Witness ==
    \E r, r2 \in Reqs :
        /\ reqs[r].pc = "done"
        /\ reqs[r].body.decodable
        /\ reqs[r].body.from_account = ""
        /\ reqs[r].body.to_account # ""
        /\ reqs[r].body.amount # <<>>
        /\ reqs[r].status = StatusBadRequest
        /\ reqs[r2].status = StatusCreated

\* C5, as claimed: a POST whose amount is not empty and is not a decimal
\* with a value above zero is answered 400 and has made no call to any store
C5_InvalidAmountRejected ==
    \A r \in Reqs :
        (/\ reqs[r].pc # "idle"
         /\ reqs[r].body.decodable
         /\ reqs[r].body.amount # <<>>
         /\ ~ParseAmountOk(reqs[r].body.amount)) =>
        /\ reqs[r].pc = "done"
        /\ reqs[r].status = StatusBadRequest
        /\ reqs[r].log = <<>>

(***************************************************************************)
(* Properties of the consumer loop (SpecConsumer).                         *)
(***************************************************************************)
\* the ids of the messages in a queue
Mids(q) == {m.mid : m \in q}

\* consumer i has taken a step of its loop
Stepped(i) == cons'[i] # cons[i]

\* consumer i has run one iteration, over envelope e
Iterated(i, e) ==
    /\ Stepped(i)
    /\ e \in cons[i].batch
    /\ cons'[i].batch = cons[i].batch \ {e}
    /\ cons'[i].last # <<>>
    /\ cons'[i].last[1] = Event("dispatch", e.ReceiptHandle, TRUE)

\* the iteration that consumer i has run made a delete call, with outcome ok
Deleted(i, ok) ==
    /\ Len(cons'[i].last) = 2
    /\ cons'[i].last[2].ev = "delete"
    /\ cons'[i].last[2].ok = ok

\* the record of an iteration: a dispatch, then the delete call with the
\* receipt handle of the dispatched envelope
DispatchThenDelete(l) ==
    \/ l = <<>>
    \/ Len(l) = 1 /\ l[1].ev = "receive"
    \/ /\ Len(l) = 2
       /\ l[1].ev = "dispatch"
       /\ l[2].ev = "delete"
       /\ l[2].handle = l[1].handle

\* C6, in every state: every dispatch of an envelope is followed by the
\* delete call for it, and every delete call follows the dispatch of its
\* envelope, for the action transaction_created and for any other action
C6_DeleteEveryDispatched == \A i \in Instances : DispatchThenDelete(cons[i].last)

\* C6, in every step: a message leaves the queue only in an iteration of a
\* consumer over an envelope of that message received in the current tick;
\* when the delete call fails the queue is unchanged and the loop goes on
\* with the rest of the batch, and after the last envelope it waits for
\* the next tick
C6_DeleteStep ==
    /\ \A m \in queue : m.mid \notin Mids(queue') =>
          \E i \in Instances : \E e \in cons[i].batch :
              /\ Iterated(i, e)
              /\ e.ReceiptHandle[1] = m.mid
              /\ Deleted(i, TRUE)
              /\ cons'[i].last[2].handle = e.ReceiptHandle
    /\ \A i \in Instances : \A e \in cons[i].batch :
          (Iterated(i, e) /\ Deleted(i, FALSE)) =>
              /\ queue' = queue
              /\ cons'[i].pc = "proc"
    /\ \A i \in Instances :
          (cons[i].pc = "proc" /\ cons[i].batch = {} /\ Stepped(i)) =>
              cons'[i] = IdleConsumer

\* C6: the consumer loop deletes what it dispatched, and only that; a
\* failed delete leaves the message in the queue and the loop running
C6_ConsumerDeletes == []C6_DeleteEveryDispatched /\ [][C6_DeleteStep]_vars

\* C6 witness: the delete call for a dispatched message of unknown action
\* failed: the message is still in the queue and the loop has another
\* envelope of its batch to go on with
C6_Witness ==
    \E i \in Instances : \E m \in queue :
        /\ Decodes(m.body)
        /\ m.body.msg.action = "other"
        /\ cons[i].last = <<Event("dispatch", Handle(m), TRUE),
                            Event("delete", Handle(m), FALSE)>>
        /\ cons[i].pc = "proc"
        /\ cons[i].batch # {}

\* C7, in every step: an iteration of a consumer leaves the SQL store and
\* the object store unchanged and takes at most the dispatched message out
\* of the queue: a successful delete with the latest receipt handle of the
\* message removes it, whatever the number of the delivery; no step of a
\* consumer puts a message into the queue
C7_DeliveryStep ==
    \A i \in Instances :
        /\ Stepped(i) =>
              /\ rows' = rows
              /\ objects' = objects
              /\ Mids(queue') \subseteq Mids(queue)
        /\ \A e \in cons[i].batch : Iterated(i, e) =>
              /\ Mids(queue) \ Mids(queue') \subseteq {e.ReceiptHandle[1]}
              /\ \A m \in queue :
                    (Handle(m) = e.ReceiptHandle /\ Deleted(i, TRUE)) =>
                        m.mid \notin Mids(queue')

\* C7: processing a redelivered message ends as processing its first
\* delivery does: the message is deleted and the SQL store and the object
\* store are as before
C7_IdempotentRedelivery == [][C7_DeliveryStep]_vars

\* C7 witness: a message published by the ingest pipeline was delivered
\* twice and deleted with the receipt handle of its second delivery; its
\* row and its audit object are in the stores
C7_Witness ==
    \E i \in Instances : \E t \in rows :
        /\ Len(cons[i].last) = 2
        /\ cons[i].last[2] = Event("delete", <<t.id, 2>>, TRUE)
        /\ t.id \notin Mids(queue)
        /\ ObjectsOf(t.id) # {}

\* the messages of q that the step to q2 has delivered
Delivered(q, q2) ==
    {m2 \in q2 : \E m \in q : m.mid = m2.mid /\ m2.rc = m.rc + 1}

\* C8, in every state: no envelope of a consumer carries a message whose
\* body does not decode
C8_NoUndecodableEnvelope ==
    \A i \in Instances : \A e \in cons[i].batch :
        /\ e.Message # None
        /\ \A m \in queue : ~Decodes(m.body) => e.ReceiptHandle[1] # m.mid

\* C8, in every step: a message whose body does not decode stays in the
\* queue, it is never dispatched, and a receive call that delivered
\* messages returns without error the envelopes of all those that decode
C8_UndecodableStep ==
    /\ \A m \in queue : ~Decodes(m.body) =>
          /\ \E m2 \in queue' : m2.mid = m.mid /\ m2.body = m.body
          /\ \A i \in Instances : \A e \in cons[i].batch :
                Iterated(i, e) => e.ReceiptHandle[1] # m.mid
    /\ \A i \in Instances :
          (cons[i].pc = "wait" /\ Stepped(i) /\ Delivered(queue, queue') # {}) =>
              /\ cons'[i].last = <<Event("receive", <<0, 0>>, TRUE)>>
              /\ cons'[i].batch =
                    {Envelope(m) : m \in {x \in Delivered(queue, queue') :
                                             Decodes(x.body)}}

\* C8: a message whose body does not decode is not returned, not
\* dispatched and not deleted, and the rest of its batch is returned
C8_UndecodableSkipped == []C8_NoUndecodableEnvelope /\ [][C8_UndecodableStep]_vars

\* C8 witness: a message that does not decode is in the queue after its
\* second delivery, and a consumer has received with that delivery the
\* envelope of a message that decodes
C8_Witness ==
    \E m \in queue : \E i \in Instances : \E e \in cons[i].batch :
        /\ ~Decodes(m.body)
        /\ m.rc = 2
        /\ ~m.visible
        /\ cons[i].last = <<Event("receive", <<0, 0>>, TRUE)>>
        /\ \E m2 \in queue : Handle(m2) = e.ReceiptHandle /\ ~m2.visible

(***************************************************************************)
(* Properties of the shutdown (SpecConsumerExit, SpecShutdown).            *)
(***************************************************************************)
\* C9, as claimed: the process does not exit while its consumer loop is
\* between the receive call of a tick and the delete call for the last
\* envelope of the batch
C9_ExitWaitsForTick ==
    \A i \in Instances : proc[i].state = "exited" => cons[i].batch = {}

\* the requests of instance i that the exit of the process has cut off
Killed(i) == {r \in Reqs : reqs[r].inst = i /\ reqs[r].pc = "killed"}

\* C10, in every state: a process that has exited has status 0, also when
\* the shutdown returned an error, and it has cut off a request only when
\* the drain deadline expired
C10_ExitStatus ==
    \A i \in Instances :
        /\ proc[i].state = "exited" =>
              /\ proc[i].exitCode = 0
              /\ InFlight(i) = {}
              /\ ~proc[i].shutdownErr => Killed(i) = {}
        /\ proc[i].state # "exited" => Killed(i) = {}

\* C10, in every step: a request is accepted only by an instance that has
\* not received the signal, and a process exits only after the signal,
\* when no request is in flight or the drain deadline has expired
C10_ShutdownStep ==
    /\ \A r \in Reqs : (reqs[r].pc = "idle" /\ reqs'[r].pc # "idle") =>
          proc[reqs'[r].inst].state = "serving"
    /\ \A i \in Instances :
          (proc[i].state # "exited" /\ proc'[i].state = "exited") =>
              /\ proc[i].state = "draining"
              /\ InFlight(i) = {} \/ proc'[i].shutdownErr

\* C10: after the signal no request is accepted, and the process exits
\* with status 0 once the requests in flight are done or the deadline has
\* expired
C10_GracefulShutdown == []C10_ExitStatus /\ [][C10_ShutdownStep]_vars

\* C10 witness: one process exited with status 0 after the deadline
\* expired on a request in flight, the other after its request in flight
\* at the signal was answered
C10_Witness ==
    \E i, j \in Instances : \E r \in Reqs :
        /\ proc[i].state = "exited" /\ proc[i].shutdownErr
        /\ proc[i].exitCode = 0
        /\ Killed(i) # {}
        /\ proc[j].state = "exited" /\ ~proc[j].shutdownErr
        /\ proc[j].exitCode = 0
        /\ reqs[r].inst = j /\ reqs[r].pc = "done"
        /\ reqs[r].status = StatusCreated

(***************************************************************************)
(* Properties of the startup (SpecStartup).                                *)
(***************************************************************************)
\* the startup steps process i has taken, by name
StepsTaken(i) == [k \in 1..Len(proc[i].done) |-> proc[i].done[k].step]

\* process i has done something as a server or as a consumer
Active(i) ==
    \/ proc[i].server
    \/ proc[i].consumer
    \/ cons[i] # IdleConsumer
    \/ \E r \in Reqs : reqs[r].inst = i

\* C11, in every state: the startup steps are taken in the order secrets,
\* SQL adapter, object-store adapter, queue adapter; the HTTP server and the
\* consumer loop run only after all four succeeded, the server first; a
\* process one of whose steps failed took no further step, has exited with
\* a non-zero status and has run neither the server nor the loop
C11_StartupState ==
    \A i \in Instances :
        /\ StepsTaken(i) = SubSeq(Startup, 1, Len(proc[i].done))
        /\ Active(i) =>
              Len(proc[i].done) = Len(Startup) /\ AllSucceeded(proc[i].done)
        /\ proc[i].consumer => proc[i].server
        /\ ~AllSucceeded(proc[i].done) =>
              /\ ~proc[i].done[Len(proc[i].done)].ok
              /\ AllSucceeded(SubSeq(proc[i].done, 1, Len(proc[i].done) - 1))
              /\ proc[i].state = "exited"
              /\ proc[i].exitCode # 0
              /\ ~Active(i)

\* C11, in every step: a process that has exited takes no step
C11_StartupStep ==
    \A i \in Instances : proc[i].state = "exited" =>
        /\ proc'[i] = proc[i]
        /\ cons'[i] = cons[i]
        /\ \A r \in Reqs : reqs[r].inst = i => reqs'[r] = reqs[r]
        /\ \A r \in Reqs : reqs'[r].inst = i => reqs[r].inst = i

\* C11: startup is serial and any failure of it ends the process with a
\* non-zero status before the HTTP server and the consumer loop start
C11_SerialStartup == []C11_StartupState /\ [][C11_StartupStep]_vars

\* C11 witness: one process exited with status 1 when its last startup
\* step, the queue adapter, failed, while the other has started its server
\* and its loop and has answered a request
C11_Witness ==
    \E i, j \in Instances : \E r \in Reqs :
        /\ Len(proc[i].done) = Len(Startup)
        /\ ~proc[i].done[Len(Startup)].ok
        /\ proc[i].state = "exited" /\ proc[i].exitCode = FatalCode
        /\ proc[j].server /\ proc[j].consumer
        /\ reqs[r].inst = j /\ reqs[r].status = StatusCreated

\* C12, as claimed: a process that has started its HTTP server and its
\* consumer loop ends only through the signal path, with exit status 0,
\* and until the signal path ends it its consumer loop is not stopped
C12_NoFatalAfterStartup ==
    \A i \in Instances : (proc[i].server /\ proc[i].consumer) =>
        /\ proc[i].state = "exited" => proc[i].exitCode = 0
        /\ cons[i].pc = "stopped" => proc[i].state = "exited"

(***************************************************************************)
(* Properties of the read path (SpecRead).                                 *)
(***************************************************************************)
\* request r is a GET that makes its lookup in this step and is answered
Looked(r) ==
    /\ reqs[r].op = "get"
    /\ reqs[r].pc = "run"
    /\ reqs'[r].pc = "done"

\* the lookup that answered request r reached the store
LookupOk(r) == reqs'[r].log[Len(reqs'[r].log)].ok

\* C13, in every step: a GET of id T whose lookup reaches the store, made
\* on the instance that has answered the POST of T with 201, is answered
\* 200 with the transaction of the POST response, field by field
C13_GetStep ==
    \A p, g \in Reqs :
        (/\ reqs[p].op = "post"
         /\ reqs[p].pc = "done"
         /\ reqs[p].status = StatusCreated
         /\ Looked(g)
         /\ LookupOk(g)
         /\ reqs[g].inst = reqs[p].inst
         /\ reqs[g].path.id = reqs[p].resp.id) =>
        /\ reqs'[g].status = StatusOK
        /\ reqs'[g].resp = reqs[p].resp

\* C13: a transaction created with 201 is read back equal by every later
\* GET on the same instance
C13_ReadYourWrite == [][C13_GetStep]_vars

\* C13 witness: a GET on the instance that created transaction T with the
\* amount 1.5 is answered 200 with T, whose amount reads 1.50 and whose
\* timestamp is the one of the POST response
C13_Witness ==
    \E p, g \in Reqs :
        /\ reqs[p].op = "post" /\ reqs[p].status = StatusCreated
        /\ reqs[p].body.amount = <<"1", ".", "5">>
        /\ reqs[g].op = "get" /\ reqs[g].status = StatusOK
        /\ reqs[g].inst = reqs[p].inst
        /\ reqs[g].resp.id = reqs[p].resp.id
        /\ reqs[g].resp.amount = <<"1", ".", "5", "0">>
        /\ reqs[g].resp.timestamp = reqs[p].resp.timestamp
        /\ reqs[g].resp.timestamp # Now(reqs[g].resp.id)

\* C14, as claimed, in every step: a GET whose id is not a UUID is answered
\* 400 without a lookup; a GET that looks up is answered 200 with the row
\* when a row matches and 404 when none does, and it is answered 404 only
\* when no row has the id
C14_GetStatusStep ==
    \A g \in Reqs :
        /\ (reqs[g].pc = "idle" /\ reqs'[g].op = "get" /\ ~reqs'[g].path.valid) =>
              /\ reqs'[g].pc = "done"
              /\ reqs'[g].status = StatusBadRequest
              /\ reqs'[g].log = <<>>
        /\ (Looked(g) /\ LookupOk(g)) =>
              IF \E t \in rows : t.id = reqs[g].path.id
              THEN /\ reqs'[g].status = StatusOK
                   /\ reqs'[g].resp \in rows
                   /\ reqs'[g].resp.id = reqs[g].path.id
              ELSE reqs'[g].status = StatusNotFound
        /\ (Looked(g) /\ reqs'[g].status = StatusNotFound) =>
              ~\E t \in rows : t.id = reqs[g].path.id

\* C14, as claimed: the statuses of GET /transactions/{id}
C14_GetStatus == [][C14_GetStatusStep]_vars

(***************************************************************************)
(* Properties of the probes (SpecHealth, SpecReady).                       *)
(***************************************************************************)
\* the dependencies request r has probed, in the order of its probes
Probed(r) == [k \in 1..Len(reqs[r].log) |-> reqs[r].log[k].step]

\* the probes of request r that failed
FailedProbes(r) == {k \in 1..Len(reqs[r].log) : ~reqs[r].log[k].ok}

\* the body keys of the dependencies
DependencyKeys == {"database", "s3", "sqs"}

\* the dependencies that the body of request r marks with mark
Marked(r, mark) ==
    {k \in DependencyKeys \cap DOMAIN reqs[r].resp : reqs[r].resp[k] = mark}

\* C15: a health request probes the SQL store, the object store and the
\* queue in that order and makes no probe after a failed one; it is answered
\* 200 with status healthy iff the three probes succeeded, and otherwise
\* 503 with status unhealthy and a body that marks as unhealthy exactly the
\* dependency whose probe failed, the first in that order that fails
C15_HealthShortCircuit ==
    \A r \in Reqs : reqs[r].op = "health" =>
        /\ Probed(r) = SubSeq(<<"sql", "s3", "sqs">>, 1, Len(reqs[r].log))
        /\ FailedProbes(r) \subseteq {Len(reqs[r].log)}
        /\ reqs[r].pc = "done" =>
              /\ reqs[r].status = StatusOK <=>
                    (Len(reqs[r].log) = 3 /\ FailedProbes(r) = {})
              /\ reqs[r].status = StatusOK =>
                    /\ reqs[r].resp["status"] = "healthy"
                    /\ Marked(r, "healthy") = DependencyKeys
              /\ reqs[r].status # StatusOK =>
                    /\ reqs[r].status = StatusServiceUnavailable
                    /\ reqs[r].resp["status"] = "unhealthy"
                    /\ FailedProbes(r) = {Len(reqs[r].log)}
                    /\ Marked(r, "unhealthy") =
                          {HealthKey(reqs[r].log[Len(reqs[r].log)].step)}
                    /\ Cardinality(Marked(r, "healthy")) = Len(reqs[r].log) - 1

\* C15 witness: with the object store and the queue unreachable, a health
\* request was answered 503 after two probes, marking the object store and
\* not the queue, while another one was answered 200
C15_Witness ==
    \E r, r2 \in Reqs :
        /\ ~up["s3"] /\ ~up["sqs"]
        /\ reqs[r].op = "health" /\ reqs[r].pc = "done"
        /\ reqs[r].status = StatusServiceUnavailable
        /\ Probed(r) = <<"sql", "s3">>
        /\ reqs[r].resp["s3"] = "unhealthy"
        /\ "sqs" \notin DOMAIN reqs[r].resp
        /\ reqs[r2].op = "health" /\ reqs[r2].status = StatusOK

\* C16, in every state: a readiness request probes the SQL store only, and
\* it is answered 200 iff that ping succeeded and 503 otherwise
C16_ReadyState ==
    \A r \in Reqs : reqs[r].op = "ready" =>
        /\ \A k \in 1..Len(reqs[r].log) : reqs[r].log[k].step = "sql"
        /\ reqs[r].pc = "done" =>
              /\ Len(reqs[r].log) = 1
              /\ reqs[r].status = StatusOK <=> reqs[r].log[1].ok
              /\ reqs[r].status # StatusOK =>
                    reqs[r].status = StatusServiceUnavailable

\* C16, in every step: a readiness request answered while the SQL store is
\* unreachable is answered 503, and the reachability of the object store
\* and of the queue does not bear on the answer: a request whose ping
\* succeeded is answered 200
C16_ReadyStep ==
    \A r \in Reqs :
        (reqs[r].op = "ready" /\ reqs[r].pc = "run" /\ reqs'[r].pc = "done") =>
            /\ ~up["sql"] => reqs'[r].status = StatusServiceUnavailable
            /\ reqs'[r].log[1].ok => reqs'[r].status = StatusOK

\* C16: /ready is 200 iff the SQL ping succeeds, and 503 while the SQL
\* store is unreachable
C16_ReadyIsSqlPing == []C16_ReadyState /\ [][C16_ReadyStep]_vars

\* C16 witness: the SQL store is unreachable; a POST was answered 500 on a
\* failed insert and a readiness request on the same instance was answered
\* 503 after it
C16_Witness ==
    \E p, r \in Reqs :
        /\ ~up["sql"]
        /\ p < r
        /\ reqs[p].op = "post" /\ reqs[p].status = StatusInternalServerError
        /\ reqs[r].op = "ready" /\ reqs[r].status = StatusServiceUnavailable
        /\ reqs[r].inst = reqs[p].inst

\* C16 witness of the other case: a readiness request is answered 200
\* while the object store and the queue are unreachable
C16_WitnessReady ==
    \E r \in Reqs :
        /\ ~up["s3"] /\ ~up["sqs"]
        /\ reqs[r].op = "ready" /\ reqs[r].status = StatusOK

(***************************************************************************)
(* Properties of the rows (SpecStatus, SpecIngest).                        *)
(***************************************************************************)
\* the sequence of statuses that C17 names
Statuses == <<"pending", "completed", "failed">>

\* the place of a status in that sequence; 0 for any other string
Rank(st) ==
    IF \E k \in 1..Len(Statuses) : Statuses[k] = st
    THEN CHOOSE k \in 1..Len(Statuses) : Statuses[k] = st
    ELSE 0

\* the row of rs with the id of row t
SameId(rs, t) == {t2 \in rs : t2.id = t.id}

\* the step is a successful UpdateStatus(id, st) of a client of the store
\* interface, and of nothing else
UpdatedBy(id, st) ==
    /\ call'.op = "UpdateStatus"
    /\ call'.id = id
    /\ call'.status = st
    /\ call'.err = ""
    /\ reqs' = reqs
    /\ cons' = cons

\* C17, as claimed, in every state: every status is pending, completed or
\* failed
C17_StatusInSet == \A t \in rows : Rank(t.status) > 0

\* C17, as claimed, in every step: no row goes back to an earlier status
C17_ForwardStep ==
    \A t \in rows : \A t2 \in SameId(rows', t) : Rank(t2.status) >= Rank(t.status)

C17_UpdateOnlyStep ==
    \A t \in rows : \A t2 \in SameId(rows', t) :
        t2.status # t.status => UpdatedBy(t.id, t2.status)

Frame(t) ==
    [id |-> t.id, region |-> t.region, from_account |-> t.from_account,
     to_account |-> t.to_account, amount |-> t.amount,
     timestamp |-> t.timestamp]

\* C18, in every state: no two rows have the same id
C18_UniqueIds == \A t, t2 \in rows : t.id = t2.id => t = t2

\* C18, in every step: every row stays, with its id, region, accounts,
\* amount and timestamp; a row whose status changes is the row of a
\* successful UpdateStatus call; an UpdateStatus call for an id that no row
\* has returns NotFound and leaves the rows unchanged, and any other one
\* changes at most the status of the row with that id
C18_FrameStep ==
    /\ \A t \in rows : \E t2 \in rows' : Frame(t2) = Frame(t)
    /\ \A t \in rows : \A t2 \in SameId(rows', t) :
          t2.status # t.status => UpdatedBy(t.id, t2.status)
    /\ (call' # call /\ ~\E t \in rows : t.id = call'.id) =>
          /\ call'.err \in {"notfound", "storage"}
          /\ rows' = rows
    /\ (call' # call /\ call'.err = "notfound") =>
          /\ ~\E t \in rows : t.id = call'.id
          /\ rows' = rows
    /\ call' # call =>
          \A t \in rows : t.id # call'.id => t \in rows'

\* C18: rows are never removed and only their status changes, through
\* UpdateStatus, one row at a time
C18_UpdateStatusFrame == []C18_UniqueIds /\ [][C18_FrameStep]_vars

\* C18 witness: a successful UpdateStatus call has set a row to completed,
\* and the latest call, for an id that no row has, returned NotFound
C18_Witness ==
    \E t \in rows :
        /\ t.status = "completed"
        /\ call.op = "UpdateStatus"
        /\ call.err = "notfound"
        /\ \A t3 \in rows : t3.id # call.id

(***************************************************************************)
(* Properties of the audit objects and of the inserted rows (SpecIngest).  *)
(***************************************************************************)
\* the step is a successful WriteAuditLog of request r
AuditWritten(r) ==
    /\ Len(reqs'[r].log) = Len(reqs[r].log) + 1
    /\ reqs'[r].log[Len(reqs'[r].log)] = [step |-> "audit", ok |-> TRUE]

\* C19, in every state: every object has a key transactions/<region>/<id>
\* of the transaction and the region of its body, and no key has two
\* objects
C19_KeyedByRegionAndId ==
    /\ \A o \in objects :
          o.key = <<"transactions", o.body.region, o.body.transaction_id>>
    /\ \A o, o2 \in objects : o.key = o2.key => o = o2

\* C19, in every step: every object stays as it is, and a successful
\* audit write adds one object, under a key that had none
C19_WriteOnceStep ==
    /\ objects \subseteq objects'
    /\ \A r \in Reqs : AuditWritten(r) =>
          /\ Cardinality(objects') = Cardinality(objects) + 1
          /\ \A o \in objects' \ objects : \A o2 \in objects : o2.key # o.key

\* C19: no audit key is written a second time and no object is deleted
\* or replaced, under every interleaving of ingest requests on the
\* instances
C19_AuditWrittenOnce == []C19_KeyedByRegionAndId /\ [][C19_WriteOnceStep]_vars

\* C19 witness: two requests handled by the same instance have both
\* written their audit object, the later one while the earlier one was
\* still in its pipeline
C19_Witness ==
    \E r1, r2 \in Reqs :
        /\ r1 # r2
        /\ reqs[r1].inst = reqs[r2].inst
        /\ Succeeded(r1, "audit") /\ Succeeded(r2, "audit")
        /\ reqs[r1].pc = "run" /\ reqs[r2].pc = "done"
        /\ Cardinality({o \in objects : o.body.region = reqs[r1].inst}) = 2

\* the row of the transaction of request r
RowOf(r) == {t \in rows : t.id = reqs[r].tx.id}

\* C20, in every state: a request whose insert succeeded has one row, with
\* the region of the instance that handled it and status pending; every
\* row is the row of such a request; a 201 response carries that region
C20_RegionAndPending ==
    /\ \A r \in Reqs : Succeeded(r, "insert") =>
          /\ Cardinality(RowOf(r)) = 1
          /\ \A t \in RowOf(r) : t.region = reqs[r].inst /\ t.status = "pending"
    /\ \A t \in rows : \E r \in Reqs : Succeeded(r, "insert") /\ t \in RowOf(r)
    /\ \A r \in Reqs : reqs[r].status = StatusCreated =>
          /\ reqs[r].resp.region = reqs[r].inst
          /\ reqs[r].resp.status = "pending"
          /\ reqs[r].resp \in rows

\* C20, in every step: the ingest pipeline leaves every row as it is
C20_RowsKeptStep == rows \subseteq rows'

\* C20: every row created by a POST has the region of the instance that
\* handled the request and status pending
C20_RowRegionIsInstance == []C20_RegionAndPending /\ [][C20_RowsKeptStep]_vars

\* C20 witness: the two instances have each answered 201 to a request, and
\* the store they share holds a row of each region
C20_Witness ==
    \E r1, r2 \in Reqs :
        /\ reqs[r1].inst = "us-east-1" /\ reqs[r2].inst = "eu-central-1"
        /\ reqs[r1].status = StatusCreated /\ reqs[r2].status = StatusCreated
        /\ \E t1, t2 \in rows :
              /\ t1.id = reqs[r1].tx.id /\ t1.region = "us-east-1"
              /\ t2.id = reqs[r2].tx.id /\ t2.region = "eu-central-1"

(***************************************************************************)
(* Properties of ListTransactions (SpecList, SpecListing).                 *)
(***************************************************************************)
\* sequence p is a prefix of sequence q
IsPrefix(p, q) == Len(p) <= Len(q) /\ SubSeq(q, 1, Len(p)) = p

\* the timestamps of a page are descending
Descending(p) ==
    \A k \in 1..(Len(p) - 1) : p[k].timestamp >= p[k + 1].timestamp

\* a client has made the three calls of its pagination and none failed
Paged ==
    /\ call.op = "List"
    /\ Len(call.pages) = 3
    /\ \A k \in 1..3 : call.pages[k].err = ""

\* C21: List(n, 0) followed by List(n, n) is a prefix of List(2n, 0) and
\* every page is ordered by timestamp descending, for every store content
\* that does not change between the calls, rows of one timestamp included
C21_PaginationStable ==
    Paged =>
        /\ \A k \in 1..3 : Descending(call.pages[k].txs)
        /\ IsPrefix(call.pages[1].txs \o call.pages[2].txs, call.pages[3].txs)

\* the texts of the queries that are integers, with the integer they denote
Integers10 ==
    {[text |-> <<"-", "1">>, val |-> 0 - 1], [text |-> <<"0">>, val |-> 0],
     [text |-> <<"1">>, val |-> 1], [text |-> <<"+", "2">>, val |-> 2],
     [text |-> <<"0", "3">>, val |-> 3], [text |-> <<"1", "0", "0">>, val |-> 100],
     [text |-> <<"1", "0", "1">>, val |-> 101],
     [text |-> <<"2", "0", "0">>, val |-> 200]}

\* the text is an integer between lo and hi
IntegerWithin(text, lo, hi) ==
    \E n \in Integers10 : n.text = text /\ lo <= n.val /\ n.val <= hi

\* the integer that a text denotes
Denoted(text) == (CHOOSE n \in Integers10 : n.text = text).val

\* the limit and the offset that C22 states for a query
LimitClaimed(q) ==
    IF IntegerWithin(q.limit, 1, 100) THEN Denoted(q.limit) ELSE 50
OffsetClaimed(q) ==
    IF IntegerWithin(q.offset, 0, 200) THEN Denoted(q.offset) ELSE 0

\* C22: a GET /transactions is never answered 400; its one call of the
\* store has the limit of the query when that is an integer in 1..100 and
\* 50 otherwise, and the offset of the query when that is an integer >= 0
\* and 0 otherwise; a 200 response echoes both and holds at most limit rows
C22_PaginationDefaults ==
    \A r \in Reqs : reqs[r].op = "list" =>
        /\ reqs[r].status # StatusBadRequest
        /\ reqs[r].pc = "done" =>
              /\ Len(reqs[r].log) = 1
              /\ reqs[r].log[1].step = "list"
              /\ reqs[r].log[1].limit = LimitClaimed(reqs[r].path)
              /\ reqs[r].log[1].offset = OffsetClaimed(reqs[r].path)
              /\ reqs[r].status \in {StatusOK, StatusInternalServerError}
              /\ reqs[r].status = StatusOK <=> reqs[r].log[1].ok
        /\ reqs[r].status = StatusOK =>
              /\ reqs[r].resp.limit = LimitClaimed(reqs[r].path)
              /\ reqs[r].resp.offset = OffsetClaimed(reqs[r].path)
              /\ Len(reqs[r].resp.transactions) <= reqs[r].resp.limit

\* C22 witness: a request with limit=101 was answered 200 with limit 50
\* and all rows, and a request with limit=1&offset=1 was answered 200 with
\* the second row only
C22_Witness ==
    \E r1, r2 \in Reqs :
        /\ reqs[r1].op = "list" /\ reqs[r2].op = "list"
        /\ reqs[r1].path = [limit |-> <<"1", "0", "1">>, offset |-> <<>>]
        /\ reqs[r1].status = StatusOK
        /\ reqs[r1].resp.limit = 50
        /\ Len(reqs[r1].resp.transactions) = Cardinality(rows)
        /\ reqs[r2].path = [limit |-> <<"1">>, offset |-> <<"1">>]
        /\ reqs[r2].status = StatusOK
        /\ reqs[r2].resp.limit = 1 /\ reqs[r2].resp.offset = 1
        /\ Len(reqs[r2].resp.transactions) = 1
        /\ reqs[r2].resp.transactions # SubSeq(reqs[r1].resp.transactions, 1, 1)

(***************************************************************************)
(* Properties of the bootstrap of the adapters (SpecBootstrap).            *)
(***************************************************************************)
\* the calls a task has made, in their order
CallsOf(task) == [k \in 1..Len(task.log) |-> task.log[k].call]

\* every call of the task got an answer from the store
AllReached(task) == \A k \in 1..Len(task.log) : task.log[k].reached

\* the task has returned
Returned(task) == task.pc \in {"ok", "error"}

\* C23: ensureBucket makes the calls HEAD, CREATE, HEAD in that order, no
\* CREATE after a first HEAD that succeeded, and returns an error exactly
\* when CREATE failed and the second HEAD failed too, which ends main;
\* when two instances both found the bucket missing and every call got its
\* answer from the store, both have returned success and the bucket exists
C23_EnsureBucket ==
    /\ \A i \in Instances :
          LET b == ens[i].bucket IN
          /\ IsPrefix(CallsOf(b), <<"head", "create", "head">>)
          /\ (Len(b.log) >= 1 /\ b.log[1].ok) => (Len(b.log) = 1 /\ b.pc = "ok")
          /\ (Len(b.log) >= 2 /\ b.log[2].ok) => (Len(b.log) = 2 /\ b.pc = "ok")
          /\ b.pc = "error" <=>
                (Len(b.log) = 3 /\ ~b.log[2].ok /\ ~b.log[3].ok)
          /\ b.pc = "ok" <=> (b.log # <<>> /\ b.log[Len(b.log)].ok)
          /\ b.pc = "error" => (proc[i].state = "exited" /\ proc[i].exitCode = FatalCode)
          /\ (b.pc = "ok" /\ AllReached(b)) => "bucket" \in created
    /\ (\A i \in Instances :
            LET b == ens[i].bucket IN
            /\ Returned(b) /\ AllReached(b)
            /\ ~b.log[1].ok) =>
          /\ \A i \in Instances : ens[i].bucket.pc = "ok"
          /\ "bucket" \in created

\* C23 witness: two instances have both found the bucket missing; one has
\* created it, the CREATE of the other has failed and its second HEAD has
\* found the bucket; both have returned success
C23_Witness ==
    \E i, j \in Instances :
        /\ i # j
        /\ ens[i].bucket.pc = "ok" /\ ens[j].bucket.pc = "ok"
        /\ ens[i].bucket.log =
              <<[call |-> "head", ok |-> FALSE, reached |-> TRUE],
                [call |-> "create", ok |-> TRUE, reached |-> TRUE]>>
        /\ ens[j].bucket.log =
              <<[call |-> "head", ok |-> FALSE, reached |-> TRUE],
                [call |-> "create", ok |-> FALSE, reached |-> TRUE],
                [call |-> "head", ok |-> TRUE, reached |-> TRUE]>>
        /\ "bucket" \in created

\* C29: ensureQueue returns the URL without a CREATE when the lookup
\* succeeds; when the lookup fails it makes one CREATE and returns the URL
\* created, or, when the CREATE fails, an error with an empty URL and no
\* second lookup, which ends main
C29_EnsureQueue ==
    \A i \in Instances :
        LET q == ens[i].queue IN
        /\ IsPrefix(CallsOf(q), <<"get", "create">>)
        /\ (Len(q.log) >= 1 /\ q.log[1].ok) =>
              (Len(q.log) = 1 /\ q.pc = "ok" /\ q.url = QueueUrl)
        /\ (Returned(q) /\ ~q.log[1].ok) => Len(q.log) = 2
        /\ ~Returned(q) => (q.url = "" /\ Len(q.log) <= 1)
        /\ Len(q.log) = 2 =>
              IF q.log[2].ok THEN q.pc = "ok" /\ q.url = QueueUrl
              ELSE q.pc = "error" /\ q.url = ""
        /\ q.pc = "error" => (proc[i].state = "exited" /\ proc[i].exitCode = FatalCode)
        /\ q.pc = "ok" => (q.url = QueueUrl /\ Len(proc[i].done) = Len(Startup))
        /\ (q.pc = "ok" /\ AllReached(q)) => "queue" \in created

\* C29 witness: the lookup of one instance has failed and its CREATE too,
\* and it has returned an error after these two calls while the queue
\* exists; the other instance has found the queue
C29_Witness ==
    \E i, j \in Instances :
        /\ ens[i].queue.pc = "error"
        /\ ens[i].queue.url = ""
        /\ CallsOf(ens[i].queue) = <<"get", "create">>
        /\ "queue" \in created
        /\ ens[j].queue.pc = "ok"
        /\ CallsOf(ens[j].queue) = <<"get">>

(***************************************************************************)
(* Properties of the envelopes (SpecConsumer).                             *)
(***************************************************************************)
\* envelope e is the envelope of message m
EnvelopeOf(e, m) ==
    /\ Decodes(m.body)
    /\ e.Message = m.body.msg
    /\ e.ReceiptHandle = Handle(m)

\* C24, in every state: an envelope in the batch of a consumer carries the
\* body of the message that its receipt handle names
C24_HandleNamesBody ==
    \A i \in Instances : \A e \in cons[i].batch : \A m \in queue :
        m.mid = e.ReceiptHandle[1] => (Decodes(m.body) /\ e.Message = m.body.msg)

\* C24, in every step: a receive call returns, for every message it
\* delivered whose body decodes, one envelope with that body and the
\* receipt handle of that delivery, and no other envelope; an iteration
\* calls delete with the receipt handle of its envelope, and the message
\* that goes is the one whose body the envelope carries
C24_PairStep ==
    /\ \A i \in Instances :
          (cons[i].pc = "wait" /\ cons'[i].pc = "proc") =>
              /\ \A e \in cons'[i].batch :
                    \E m \in Delivered(queue, queue') : EnvelopeOf(e, m)
              /\ \A m \in Delivered(queue, queue') : Decodes(m.body) =>
                    \E e \in cons'[i].batch : EnvelopeOf(e, m)
              /\ \A e, e2 \in cons'[i].batch :
                    e.ReceiptHandle = e2.ReceiptHandle => e = e2
    /\ \A i \in Instances : \A e \in cons[i].batch :
          Iterated(i, e) =>
              /\ \A k \in 1..Len(cons'[i].last) :
                    cons'[i].last[k].handle = e.ReceiptHandle
              /\ \A m \in queue \ queue' :
                    /\ m.mid = e.ReceiptHandle[1]
                    /\ e.Message = m.body.msg

Pending(k) == \E m \in queue : m.mid = k /\ Decodes(m.body)

\* C25: while the loops tick and the calls to the queue succeed in the
\* end, every message in the queue whose body decodes, of action
\* transaction_created or any other, is deleted in the end
C25_DecodableDeleted ==
    \A k \in 1..Len(Published) : Pending(k) ~> (k \notin Mids(queue))

\* C25 witness: a message of another action, whose first delete call
\* failed, was delivered again and deleted
C25_Witness ==
    \E i \in Instances : \E k \in 1..Len(Published) :
        /\ cons[i].last = <<Event("dispatch", <<k, 2>>, TRUE),
                            Event("delete", <<k, 2>>, TRUE)>>
        /\ k \notin Mids(queue)
        /\ \A t \in rows : t.id # k

(***************************************************************************)
(* Properties of GET /stats (SpecStats).                                   *)
(***************************************************************************)
\* the sum of the counts of a result by status or by region
RECURSIVE SumOf(_)
SumOf(counts) ==
    IF DOMAIN counts = {} THEN 0
    ELSE LET v == CHOOSE x \in DOMAIN counts : TRUE IN
         counts[v] + SumOf([x \in DOMAIN counts \ {v} |-> counts[x]])

\* request r is a GET /stats that was answered 200
StatsAnswered(r) ==
    reqs[r].op = "stats" /\ reqs[r].pc = "done" /\ reqs[r].status = StatusOK

\* C28, as claimed: in every result of Stats, total_transactions is the
\* sum of the counts by status and the sum of the counts by region, also
\* when inserts interleave with its three queries
C28_StatsConsistent ==
    \A r \in Reqs : StatsAnswered(r) =>
        /\ reqs[r].resp["total_transactions"] = SumOf(reqs[r].resp["by_status"])
        /\ reqs[r].resp["total_transactions"] = SumOf(reqs[r].resp["by_region"])

\* C28, amended, in every state: the three queries of Stats each count the
\* table as it is when they run, and rows are only added: the total is at
\* most the sum by status, which is at most the sum by region, which is at
\* most the number of rows now
C28_StatsOrdered ==
    \A r \in Reqs : StatsAnswered(r) =>
        /\ reqs[r].resp["total_transactions"] <= SumOf(reqs[r].resp["by_status"])
        /\ SumOf(reqs[r].resp["by_status"]) <= SumOf(reqs[r].resp["by_region"])
        /\ SumOf(reqs[r].resp["by_region"]) <= Cardinality(rows)

\* C28, amended, in every step: a query of Stats counts the rows of the
\* table at that step, so that a Stats whose three queries saw the same
\* rows has equal sums
C28_StatsStep ==
    \A r \in Reqs :
        (reqs[r].op = "stats" /\ reqs[r].pc = "run" /\ reqs'[r] # reqs[r]
         /\ reqs'[r].status # StatusInternalServerError) =>
            LET key == StatsKeys[reqs[r].step]
                got == reqs'[r].resp[key]
            IN /\ rows' = rows
               /\ (IF key = "total_transactions" THEN got ELSE SumOf(got))
                     = Cardinality(rows)
               /\ \A k \in DOMAIN reqs[r].resp : reqs'[r].resp[k] = reqs[r].resp[k]

\* C28, amended: the sums of a Stats result are ordered as its queries
\* are, and equal when no insert falls between the queries
C28_StatsMonotone == []C28_StatsOrdered /\ [][C28_StatsStep]_vars

\* C28 witness: a Stats was answered 200 with a total of 0 and one
\* pending row, of the instance in eu-central-1, after an insert between
\* its first and its second query
C28_Witness ==
    \E r \in Reqs :
        /\ StatsAnswered(r)
        /\ reqs[r].resp["total_transactions"] = 0
        /\ reqs[r].resp["by_status"] = ("pending" :> 1)
        /\ reqs[r].resp["by_region"] = ("eu-central-1" :> 1)


(***************************************************************************)
(* Properties of the service as a whole (SpecService).                     *)
(***************************************************************************)
\* the POST requests that have constructed their transaction
Posted(r) == reqs[r].op = "post" /\ reqs[r].tx # None

\* the message of a transaction was published and a consumer deleted it
Consumed(r) ==
    /\ Posted(r)
    /\ Succeeded(r, "publish")
    /\ MessagesOf(reqs[r].tx.id) = {}

\* C26: every row the service created has status pending in every
\* reachable state
C26_AllPending == \A t \in rows : t.status = "pending"

\* C26: no step of a request or of a consumer loop changes the status of a
\* row: every row is there afterwards with the status it had
C26_StatusKeptStep ==
    \A t \in rows : \E t2 \in rows' : t2.id = t.id /\ t2.status = t.status

CallCount(r, step) ==
    Cardinality({k \in 1..Len(reqs[r].log) : reqs[r].log[k].step = step})

\* C27: a request has made at most one audit write and one publish, and
\* a transaction has at most one audit object and one published message
C27_AtMostOnce ==
    \A r \in Reqs :
        Posted(r) =>
            /\ CallCount(r, "audit") <= 1
            /\ CallCount(r, "publish") <= 1
            /\ Cardinality(ObjectsOf(reqs[r].tx.id)) <= 1
            /\ Cardinality(Mids(MessagesOf(reqs[r].tx.id))) <= 1

\* C27: a step that adds an audit object or a message is a call of a POST
\* request that is still running, for its own transaction, and no step of
\* a consumer loop adds either
C27_WriterStep ==
    /\ \A o \in objects' \ objects :
          \E r \in Reqs :
              /\ Posted(r)
              /\ reqs[r].pc = "run"
              /\ Len(reqs'[r].log) = Len(reqs[r].log) + 1
              /\ o.body.transaction_id = reqs[r].tx.id
    /\ \A mid \in Mids(queue') \ Mids(queue) :
          \E r \in Reqs, m \in queue' :
              /\ Posted(r)
              /\ reqs[r].pc = "run"
              /\ Len(reqs'[r].log) = Len(reqs[r].log) + 1
              /\ m.mid = mid
              /\ Decodes(m.body)
              /\ m.body.msg.transaction_id = reqs[r].tx.id
    /\ (cons' # cons) => (objects' = objects /\ Mids(queue') \subseteq Mids(queue))

\* C27: once its POST has returned, the audit objects and the published
\* messages of a transaction no longer grow
C27_ReturnedStep ==
    \A r \in Reqs :
        (Posted(r) /\ reqs[r].pc = "done") =>
            /\ {o \in objects' : o.body.transaction_id = reqs[r].tx.id}
                   \subseteq ObjectsOf(reqs[r].tx.id)
            /\ {m.mid : m \in {m2 \in queue' :
                        Decodes(m2.body)
                        /\ m2.body.msg.transaction_id = reqs[r].tx.id}}
                   \subseteq Mids(MessagesOf(reqs[r].tx.id))

\* C27: per transaction at most one audit write and one publish, both
\* inside its POST, never retried, and none by a consumer or a later
\* request
C27_WritesInsidePost ==
    []C27_AtMostOnce /\ [][C27_WriterStep /\ C27_ReturnedStep]_vars

\* C27 witness: a POST answered 201 after its one audit write failed, its
\* message was consumed, and the transaction has no audit object
C27_Witness ==
    \E r \in Reqs :
        /\ Consumed(r)
        /\ reqs[r].status = StatusCreated
        /\ Attempted(r, "audit")
        /\ ~Succeeded(r, "audit")
        /\ CallCount(r, "audit") = 1
        /\ ObjectsOf(reqs[r].tx.id) = {}

(***************************************************************************)
(* Properties of the routes (SpecRoutes).                                  *)
(***************************************************************************)
\* the request takes a step
Acts(r) == reqs'[r] # reqs[r]

\* C30: a step of a request to a GET endpoint leaves the rows, the objects
\* and the messages as they are, and a step that changes any of them is a
\* step of a POST /transactions
C30_FrameStep ==
    /\ \A r \in Reqs :
          (Acts(r) /\ reqs'[r].op # "post") =>
              (rows' = rows /\ objects' = objects /\ queue' = queue)
    /\ (rows' # rows \/ objects' # objects \/ queue' # queue) =>
          \E r \in Reqs : Acts(r) /\ reqs'[r].op = "post"

\* C30: only POST /transactions changes external state; every GET
\* endpoint leaves the SQL store, the object store and the queue unchanged,
\* whatever its outcome
C30_OnlyPostWrites == [][C30_FrameStep]_vars

\* C30 witness: a GET /transactions has failed with 500 over stores that
\* hold the row, the audit object and the message of a transaction
C30_Witness ==
    \E p \in Reqs, g \in Reqs :
        /\ reqs[p].op = "post"
        /\ reqs[p].status = StatusCreated
        /\ reqs[g].op = "list"
        /\ reqs[g].status = StatusInternalServerError
        /\ \E t \in rows : t.id = reqs[p].tx.id
        /\ ObjectsOf(reqs[p].tx.id) # {}
        /\ MessagesOf(reqs[p].tx.id) # {}

====
